---- MODULE Spec2Model ----
(***************************************************************************)
(* SoHoLINK offline AAA core: identity store, credential verifier and the  *)
(* RADIUS authentication handler, as a state machine.                      *)
(*                                                                         *)
(* Time (the wall clock, durations, timestamps) is counted in units of     *)
(* five minutes.  Option values are sequences: << >> is nil / NULL / no    *)
(* row, <<x>> is a present value.                                          *)
(***************************************************************************)
EXTENDS Integers, Sequences, FiniteSets, TLC

VARIABLES
    now,          \* the wall clock (time.Now / CURRENT_TIMESTAMP)
    users,        \* table users: username -> option of row
    revocations,  \* table revocations: sequence of rows, in insertion order
    nonce_cache,  \* table nonce_cache: nonce (primary key) -> seen_at
    nextTick,     \* the nonce pruner's ticker: time of its next tick
    prepared,     \* the policy engine's compiled policy (Engine.prepared)
    req,          \* the HandleAuth invocations: slot -> locals and position
    history,      \* per username and token, the latest Verify call that returned allowed
    watch,        \* the tokens whose accepted calls the history keeps (never changes)
    last,         \* the store or log call made last and what it returned ("off": not kept)
    utcNow,       \* the wall clock as the accounting log reads it, in parts of a UTC day
    collector,    \* the accounting Collector: currentDate, file, eventCount
    dir,          \* the accounting directory: file name -> file
    tree,         \* the Merkle tree a caller built last
    check,        \* the proof that caller holds and what verifying it returned
    batches       \* the Merkle directory: batch file name -> option of batch record

merkleVars == <<tree, check, batches>>

VARIABLES
    app,          \* App.Shutdown: its position and the steps it has finished
    evals,        \* the Engine.Evaluate calls of other callers: slot -> locals and position
    cfg,          \* the configuration the node was started with (config.Config; never changes)
    disk,         \* what File.Sync has made durable: path -> lines on disk ("on" FALSE: not kept)
    writers,      \* the concurrent callers of Collector.Record: writer -> locals and position
    mu,           \* Collector.mu: its holder, and the order in which writers took it
    node_info     \* table node_info: key (primary key) -> option of value

lockVars == <<writers, mu>>

vars == <<now, users, revocations, nonce_cache, nextTick, prepared, req, history, watch, last,
          utcNow, collector, dir,
          merkleVars, app, evals, cfg, disk, lockVars, node_info>>

(***************************************************************************)
(* Bounds of the model and the configuration it runs under.                *)
(***************************************************************************)
MaxTime == 6
MaxRevocations == 2

\* auth.credential_ttl: ten minutes, as TestClockSkewBoundary sets it.
CredentialTTL == 2
\* auth.max_nonce_age: five minutes (the default, and NewVerifier's in the tests).
MaxNonceAge == 1
\* The skew tolerance NewVerifier hard-codes: five minutes.
DefaultClockSkewTolerance == 1
\* Every token of the model carries this timestamp; its age is now - TokenTime.
TokenTime == 2
\* result.DID[:20] in HandleAuth's accept path.
DIDLogPrefixLen == 20

Usernames == {"alice", "bob"}
Keys == {"k1", "k2"}
Nonces == {"n1", "n2"}
Slots == {1, 2}

(***************************************************************************)
(* DID codec.  A DID string is modelled by its parts: the scheme prefix,   *)
(* the bytes its base58 body decodes to (<< >> when it is not base58), and *)
(* its length in characters.                                               *)
(***************************************************************************)
\* The length of a public key blob: 32 for an Ed25519 key, 4 for the
\* []byte("key1") of store_test.go.
PublicKeySize(pk) == IF pk \in Keys THEN 32 ELSE 4

EncodeDIDKey(pub) ==
    [scheme |-> "did:key:z", decoded |-> <<"ed01", pub>>, len |-> 57]

\* "did:key:z6MkAlice" of store_test.go: the prefix is there, the body is no key.
ShortDID == [scheme |-> "did:key:z", decoded |-> <<"6MkAlice">>, len |-> 17]

\* The empty string, which the schema's NOT NULL admits.
EmptyDID == [scheme |-> "", decoded |-> << >>, len |-> 0]

\* DecodeDIDKey: << >> is the error return.
DecodeDIDKey(did) ==
    IF did.scheme # "did:key:z" THEN << >>
    ELSE IF Len(did.decoded) < 2 THEN << >>
    ELSE IF did.decoded[1] # "ed01" THEN << >>
    ELSE IF PublicKeySize(did.decoded[2]) # 32 THEN << >>
    ELSE <<did.decoded[2]>>

HasDIDKeyPrefix(did) == did.scheme \in {"did:key:z", "did:key:"}

(***************************************************************************)
(* Credential codec.  SHA3-256(username)[0..8] is taken as collision-free  *)
(* on the usernames of the model; a signature is the pair of the signing   *)
(* key and the 20 bytes it was made over.                                  *)
(***************************************************************************)
UsernameHash(username) == <<"sha3", username>>

RawMsg(ts, nonce, uhash) == <<ts, nonce, uhash>>

Sign(key, msg) == [key |-> key, msg |-> msg]

\* ed25519.Verify; the caller has checked the key's length.
Ed25519Verify(pub, msg, sig) == sig.key = pub /\ sig.msg = msg

CreateCredentialAtTime(username, key, ts, nonce) ==
    [form |-> "cred", ts |-> ts, nonce |-> nonce, uhash |-> UsernameHash(username),
     sig |-> Sign(key, RawMsg(ts, nonce, UsernameHash(username)))]

\* A token whose username hash was overwritten after signing.
Rebind(token, username) == [token EXCEPT !.uhash = UsernameHash(username)]

\* Not base64url, or not 84 bytes.
GarbageToken ==
    [form |-> "garbage", ts |-> 0, nonce |-> "n1", uhash |-> UsernameHash(""),
     sig |-> Sign("k1", RawMsg(0, "n1", UsernameHash("")))]

EmptyToken == [GarbageToken EXCEPT !.form = "empty"]

\* ParseCredential: << >> is the error return, otherwise the Credential.
ParseCredential(token) ==
    IF token.form # "cred" THEN << >>
    ELSE <<[Timestamp |-> token.ts, NonceHex |-> token.nonce,
            UsernameHash |-> token.uhash, Signature |-> token.sig,
            RawMsg |-> RawMsg(token.ts, token.nonce, token.uhash)]>>

(***************************************************************************)
(* Identity store.  Every operation is one SQL statement or one            *)
(* transaction, which SQLite makes atomic; an operation that fails (I/O    *)
(* error, cancelled context) leaves the tables as they were.               *)
(***************************************************************************)
UserRow(id, username, did, publicKey, role) ==
    [id |-> id, username |-> username, did |-> did, public_key |-> publicKey,
     role |-> role, revoked_at |-> << >>]

StoredUsernames == {u \in Usernames : users[u] # << >>}

StoredDIDs == {users[u][1].did : u \in StoredUsernames}

\* AddUser's INSERT with UNIQUE on the username alone.
AddUserAdmitsUsernameOnly(username, did) == username \notin StoredUsernames

\* AddUser's INSERT: TRUE when the UNIQUE constraints admit the row.
AddUserAdmits(username, did) ==
    /\ username \notin StoredUsernames
    /\ did \notin StoredDIDs

\* AddUser: the users table after the call (unchanged when the INSERT fails).
AddUserTable(username, did, publicKey, role) ==
    IF AddUserAdmits(username, did)
    THEN [users EXCEPT ![username] =
            <<UserRow(Cardinality(StoredUsernames) + 1, username, did, publicKey,
                      IF role = "" THEN "basic" ELSE role)>>]
    ELSE users

GetUserByUsername(username) ==
    IF username \in Usernames THEN users[username] ELSE << >>

\* IsRevoked whose query matches no row.
IsRevokedNoMatch(did) == FALSE

IsRevoked(did) ==
    \E i \in 1..Len(revocations) : revocations[i].did = did

CheckNonce(nonce) == nonce \in DOMAIN nonce_cache

\* RecordNonce as INSERT OR REPLACE: a repeated insert renews seen_at.
RecordNonceTableReplace(nonce) ==
    [n \in DOMAIN nonce_cache \cup {nonce} |-> IF n = nonce THEN now ELSE nonce_cache[n]]

\* RecordNonce whose INSERT never reaches the table.
RecordNonceTableNoInsert(nonce) == nonce_cache

\* RecordNonce: INSERT OR IGNORE, seen_at DEFAULT CURRENT_TIMESTAMP.
RecordNonceTable(nonce) ==
    IF nonce \in DOMAIN nonce_cache THEN nonce_cache
    ELSE [n \in DOMAIN nonce_cache \cup {nonce} |->
            IF n = nonce THEN now ELSE nonce_cache[n]]

\* A CheckNonce that inserts the nonce it looks up.
CheckNonceTableInserting(nonce) == RecordNonceTable(nonce)

\* CheckNonce is a SELECT COUNT(*): the nonce cache after it.
CheckNonceTable(nonce) == nonce_cache

\* RecordNonce's INSERT OR IGNORE raises no constraint error on a nonce that is
\* already there.
RecordNonceConflict(nonce) == FALSE

\* PruneExpiredNonces: DELETE FROM nonce_cache WHERE seen_at < cutoff.
PruneCutoff(maxAge) == now - maxAge

\* A DELETE whose WHERE is seen_at <= cutoff.
PrunedNoncesAtCutoff(maxAge) ==
    {n \in DOMAIN nonce_cache : nonce_cache[n] <= PruneCutoff(maxAge)}

PrunedNonces(maxAge) ==
    {n \in DOMAIN nonce_cache : nonce_cache[n] < PruneCutoff(maxAge)}

PruneExpiredNoncesTable(maxAge) ==
    [n \in DOMAIN nonce_cache \ PrunedNonces(maxAge) |-> nonce_cache[n]]

\* RevokeUser's SELECT did FROM users: sql.ErrNoRows.
RevokeUserNoRows(username) == GetUserByUsername(username) = << >>

\* RevokeUser that inserts the revocations row and forgets the user row.
RevokeUserUsersUnmarked(username) == users

\* RevokeUser whose UPDATE has no WHERE clause.
RevokeUserUsersEveryRow(username) ==
    [u \in Usernames |->
        IF users[u] = << >> THEN << >> ELSE <<[users[u][1] EXCEPT !.revoked_at = <<now>>]>>]

\* RevokeUser's transaction, committed: both tables after it.
RevokeUserUsers(username) ==
    [users EXCEPT ![username] = <<[users[username][1] EXCEPT !.revoked_at = <<now>>]>>]

\* RevokeUser that marks the user row and forgets the revocations row.
RevokeUserRevocationsForgotten(username, reason) == revocations

RevokeUserRevocations(username, reason) ==
    Append(revocations,
           [did |-> users[username][1].did, reason |-> reason, revoked_at |-> now])

\* What a caller of the store sees of its last call, where that is kept.
Kept(call) == IF last.op = "off" THEN last ELSE call

(***************************************************************************)
(* Verifier.                                                               *)
(***************************************************************************)
NewVerifier(credentialTTL, maxNonceAge) ==
    [credentialTTL |-> credentialTTL, maxNonceAge |-> maxNonceAge,
     clockSkewTolerance |-> DefaultClockSkewTolerance]

\* config.AuthConfig, in the model's units of five minutes.
AuthConfig(clockSkewTolerance) ==
    [CredentialTTL |-> CredentialTTL, MaxNonceAge |-> MaxNonceAge,
     ClockSkewTolerance |-> clockSkewTolerance]

\* The values of auth.clock_skew_tolerance a node is configured with.
ClockSkewTolerances ==
    {0, DefaultClockSkewTolerance, DefaultClockSkewTolerance + 1}

\* app.New: the verifier of the running node, built from cfg.Auth.
Verifier == NewVerifier(cfg.Auth.CredentialTTL, cfg.Auth.MaxNonceAge)

\* A VerifyResult.  Reason is the string "reason: detail", kept as its two parts.
deny(reason, detail) ==
    [Allowed |-> FALSE, Reason |-> <<reason, detail>>, Username |-> "",
     DID |-> EmptyDID, Role |-> ""]

Authenticated(user) ==
    [Allowed |-> TRUE, Reason |-> <<"authenticated">>, Username |-> user.username,
     DID |-> user.did, Role |-> user.role]

\* Step 3 skipped.
UsernameBoundSkipped(username, cred) == TRUE

\* Step 3: the username binding.
UsernameBound(username, cred) == cred.UsernameHash = UsernameHash(username)

\* Step 4: the key the signature is checked against.
ResolvePublicKey(user) ==
    IF HasDIDKeyPrefix(user.did) /\ DecodeDIDKey(user.did) # << >>
    THEN DecodeDIDKey(user.did)[1]
    ELSE user.public_key

\* Step 6 with both comparisons off by one.
TemporalCheckStrict(v, age) ==
    IF age <= -v.clockSkewTolerance THEN "credential_future"
    ELSE IF age >= v.credentialTTL + v.clockSkewTolerance THEN "credential_expired"
    ELSE "ok"

\* Step 6 on age = now - cred.Timestamp: "ok" or the deny reason.
TemporalCheck(v, age) ==
    IF age < -v.clockSkewTolerance THEN "credential_future"
    ELSE IF age > v.credentialTTL + v.clockSkewTolerance THEN "credential_expired"
    ELSE "ok"

\* Steps 3 to 6 with the signature checked before the binding.
VerifyLocalSignatureFirst(v, username, cred, user, t) ==
    IF PublicKeySize(ResolvePublicKey(user)) # 32 THEN "panic"
    ELSE IF ~Ed25519Verify(ResolvePublicKey(user), cred.RawMsg, cred.Signature)
         THEN "invalid_signature"
    ELSE IF cred.UsernameHash # UsernameHash(username) THEN "username_mismatch"
    ELSE IF t - cred.Timestamp < -v.clockSkewTolerance THEN "credential_future"
    ELSE IF t - cred.Timestamp > v.credentialTTL + v.clockSkewTolerance
         THEN "credential_expired"
    ELSE "ok"

\* Steps 3 to 6, which touch no shared state but the clock: "ok", the deny
\* reason, or "panic" (ed25519.Verify panics on a key that is not 32 bytes).
VerifyLocal(v, username, cred, user, t) ==
    IF ~UsernameBound(username, cred) THEN "username_mismatch"
    ELSE IF PublicKeySize(ResolvePublicKey(user)) # 32 THEN "panic"
    ELSE IF ~Ed25519Verify(ResolvePublicKey(user), cred.RawMsg, cred.Signature)
         THEN "invalid_signature"
    ELSE TemporalCheck(v, t - cred.Timestamp)

Detail(reason) ==
    CASE reason = "username_mismatch" -> "credential was not issued for this username"
      [] reason = "invalid_signature" -> "Ed25519 signature verification failed"
      [] reason = "credential_future" -> "credential timestamp is in the future"
      [] reason = "credential_expired" -> "credential expired"
      [] OTHER -> ""

(***************************************************************************)
(* Policy engine.  A compiled policy is named by the rego source it was    *)
(* compiled from: "default" is configs/policies/default.rego, "deny_all"   *)
(* the deny-all source of TestEngineReload.                                *)
(***************************************************************************)
Policies == {"default", "deny_all"}

AuthzInput(result) ==
    [User |-> result.Username, DID |-> result.DID, Role |-> result.Role,
     Authenticated |-> TRUE, Resource |-> "network_access"]

\* Engine.Evaluate without an evaluation error: the AuthzResult.
Evaluate(policy, input) ==
    IF policy = "default"
    THEN [Allow |-> input.User # "" /\ input.DID # EmptyDID /\ input.Authenticated,
          DenyReasons |->
              (IF input.DID = EmptyDID THEN <<"no_did">> ELSE << >>)
              \o (IF input.User = "" THEN <<"no_username">> ELSE << >>)
              \o (IF ~input.Authenticated THEN <<"not_authenticated">> ELSE << >>)]
    ELSE [Allow |-> FALSE, DenyReasons |-> << >>]

(***************************************************************************)
(* RADIUS authentication handler: one HandleAuth invocation per slot.      *)
(***************************************************************************)
VerifyPcs == {"check_nonce", "is_revoked", "record_nonce"}

Idle ==
    [pc |-> "idle", username |-> "", password |-> EmptyToken, user |-> << >>,
     steps |-> << >>, vres |-> << >>, verr |-> FALSE, response |-> << >>,
     pending |-> << >>, events |-> << >>, recordCalls |-> 0,
     at |-> 0, fault |-> {}, perr |-> FALSE, pallow |-> FALSE, overlap |-> {}, revokedBefore |-> FALSE,
     prior |-> {}]

Running == \A p \in DOMAIN req : req[p].pc # "panicked"

\* The RADIUS servers take packets until Server.Shutdown closes their listeners.
Accepting == app.pc = "running"

AccountingEvent(eventType, userDID, username, decision, reason) ==
    [EventType |-> eventType, UserDID |-> userDID, Username |-> username,
     Decision |-> decision, Reason |-> reason]

\* sendReject followed by the recordEvent call that every reject path makes next.
Rejected(r, message, eventType, userDID, reason) ==
    [r EXCEPT !.pc = "record_event",
              !.response = <<[Code |-> "Access-Reject", ReplyMessage |-> message]>>,
              !.pending = <<AccountingEvent(eventType, userDID, r.username, "DENY", reason)>>]

\* HandleAuth that takes Verify's error for a success.
AfterVerifyErrorAccepted(r, result, err) ==
    LET r1 == [r EXCEPT !.vres = <<result>>, !.verr = err] IN
    IF err
    THEN [r1 EXCEPT !.pc = "record_event",
            !.response = <<[Code |-> "Access-Accept",
                            ReplyMessage |-> <<"Welcome, ", r.username>>]>>,
            !.pending = <<AccountingEvent("auth_success", result.DID, r.username,
                                          "ALLOW", <<"authenticated">>)>>]
    ELSE IF ~result.Allowed
         THEN Rejected(r1, result.Reason, "auth_failure", result.DID, result.Reason)
    ELSE [r1 EXCEPT !.pc = "policy"]

\* HandleAuth from Verify's return to the policy step: lines 52 to 64.
AfterVerify(r, result, err) ==
    LET r1 == [r EXCEPT !.vres = <<result>>, !.verr = err] IN
    IF err THEN Rejected(r1, <<"internal error">>, "auth_error", EmptyDID, <<"internal_error">>)
    ELSE IF ~result.Allowed
         THEN Rejected(r1, result.Reason, "auth_failure", result.DID, result.Reason)
    ELSE [r1 EXCEPT !.pc = "policy"]

\* Verify's steps 1 to 6 on a request record that has the username and the token:
\* the record when Verify returns or reaches its nonce check.
VerifyBegin(r, fail, t) ==
    LET cred == ParseCredential(r.password)
        user == GetUserByUsername(r.username)
    IN  IF cred = << >>
        THEN AfterVerify([r EXCEPT !.steps = <<"parse">>],
                         deny("invalid_credential", "invalid credential encoding"), FALSE)
        ELSE IF fail
        THEN AfterVerify([r EXCEPT !.steps = <<"parse", "lookup">>, !.fault = {"lookup"}],
                         deny("internal_error", "database lookup failed"), TRUE)
        ELSE IF user = << >>
        THEN AfterVerify([r EXCEPT !.steps = <<"parse", "lookup">>],
                         deny("user_not_found", "user not found"), FALSE)
        ELSE LET local == VerifyLocal(Verifier, r.username, cred[1], user[1], t)
                 ran == IF local = "username_mismatch"
                            THEN <<"parse", "lookup", "binding">>
                        ELSE IF local \in {"panic", "invalid_signature"}
                            THEN <<"parse", "lookup", "binding", "signature">>
                        ELSE <<"parse", "lookup", "binding", "signature", "temporal">>
                 r1 == [r EXCEPT !.user = user, !.steps = ran, !.at = t]
             IN  IF local = "panic" THEN [r1 EXCEPT !.pc = "panicked"]
                 ELSE IF local # "ok"
                      THEN AfterVerify(r1, deny(local, Detail(local)), FALSE)
                 ELSE [r1 EXCEPT !.pc = "check_nonce"]

\* The accepted Verify calls on this username and token so far.
PriorOf(username, token) ==
    {[recorded |-> h.recorded, pruned |-> h.pruned] :
        h \in {x \in history : x.username = username /\ x.token = token}}

\* HandleAuth that hands every request to Verify.
HandleAuthEntryUnchecked(r, fail, t) == VerifyBegin(r, fail, t)

\* HandleAuth from its entry to Verify's nonce check: lines 35 to 50.
HandleAuthEntry(r, fail, t) ==
    IF r.username = ""
    THEN Rejected(r, <<"missing username">>, "auth_failure", EmptyDID,
                  <<"missing_username">>)
    ELSE IF r.password.form = "empty"
    THEN Rejected(r, <<"missing credential token">>, "auth_failure", EmptyDID,
                  <<"missing_credential">>)
    ELSE VerifyBegin(r, fail, t)

HandleAuthBegin(p, username, password) ==
    /\ Running
    /\ Accepting
    /\ req[p].pc = "idle"
    /\ \E fail \in BOOLEAN :
        LET inVerify == {q \in DOMAIN req \ {p} : req[q].pc \in VerifyPcs}
            r0 == [Idle EXCEPT !.username = username, !.password = password,
                               !.revokedBefore =
                                   /\ GetUserByUsername(username) # << >>
                                   /\ GetUserByUsername(username)[1].revoked_at # << >>,
                               !.prior = PriorOf(username, password)]
            r1 == HandleAuthEntry(r0, fail, now)
        IN  /\ (fail => r1.fault # {})
            /\ req' = [q \in DOMAIN req |->
                        IF q = p
                        THEN [r1 EXCEPT !.overlap =
                                IF r1.pc \in VerifyPcs THEN inVerify ELSE {}]
                        ELSE IF q \in inVerify /\ r1.pc \in VerifyPcs
                        THEN [req[q] EXCEPT !.overlap = @ \cup {p}]
                        ELSE req[q]]
    /\ UNCHANGED <<now, users, revocations, nonce_cache, nextTick, prepared, history, watch, last,
                   utcNow, collector, dir, merkleVars, app, evals, cfg, disk, lockVars, node_info>>

\* Step 7.
VerifyCheckNonce(p) ==
    /\ Running
    /\ req[p].pc = "check_nonce"
    /\ \E fail \in BOOLEAN :
        LET r == [req[p] EXCEPT !.steps = Append(@, "replay"),
                                !.fault = IF fail THEN {"replay"} ELSE {}] IN
        /\ req' = [req EXCEPT ![p] =
            IF fail THEN AfterVerify(r, deny("internal_error", "nonce check failed"), TRUE)
            ELSE IF CheckNonce(ParseCredential(r.password)[1].NonceHex)
            THEN AfterVerify(r, deny("nonce_replay",
                                     "credential token has already been used"), FALSE)
            ELSE [r EXCEPT !.pc = "is_revoked"]]
        /\ nonce_cache' = IF fail THEN nonce_cache
                          ELSE CheckNonceTable(ParseCredential(r.password)[1].NonceHex)
    /\ UNCHANGED <<now, users, revocations, nextTick, prepared, history, watch, last,
                   utcNow, collector, dir, merkleVars, app, evals, cfg, disk, lockVars, node_info>>

\* Step 8.
VerifyIsRevoked(p) ==
    /\ Running
    /\ req[p].pc = "is_revoked"
    /\ \E fail \in BOOLEAN :
        LET r == [req[p] EXCEPT !.steps = Append(@, "revocation"),
                                !.fault = IF fail THEN {"revocation"} ELSE {}] IN
        req' = [req EXCEPT ![p] =
            IF fail THEN AfterVerify(r, deny("internal_error", "revocation check failed"), TRUE)
            ELSE IF IsRevoked(r.user[1].did)
            THEN AfterVerify(r, deny("user_revoked", "user has been revoked"), FALSE)
            ELSE [r EXCEPT !.pc = "record_nonce"]]
    /\ UNCHANGED <<now, users, revocations, nonce_cache, nextTick, prepared, history, watch, last,
                   utcNow, collector, dir, merkleVars, app, evals, cfg, disk, lockVars, node_info>>

\* Step 9 and the allowed return.
VerifyRecordNonce(p) ==
    /\ Running
    /\ req[p].pc = "record_nonce"
    /\ \E fail \in BOOLEAN :
        LET r == [req[p] EXCEPT !.steps = Append(@, "record"),
                                !.fault = IF fail THEN {"record"} ELSE {}] IN
        /\ nonce_cache' = IF fail THEN nonce_cache
                          ELSE RecordNonceTable(ParseCredential(r.password)[1].NonceHex)
        /\ req' = [req EXCEPT ![p] = AfterVerify(r, Authenticated(r.user[1]), FALSE)]
        /\ history' = IF r.password \notin watch THEN history
                       ELSE {h \in history : h.username # r.username \/ h.token # r.password}
                            \cup {[username |-> r.username, token |-> r.password,
                                   recorded |-> ~fail, pruned |-> FALSE]}
    /\ UNCHANGED <<now, users, revocations, nextTick, prepared, watch, last,
                   utcNow, collector, dir, merkleVars, app, evals, cfg, disk, lockVars, node_info>>

\* HandleAuth failing open: an evaluation error is logged and the accept goes on.
AfterEvaluateFailOpen(r, policyResult, err) ==
    LET result == r.vres[1]
        reason == IF Len(policyResult.DenyReasons) > 0
                  THEN <<policyResult.DenyReasons[1]>> ELSE <<"policy_denied">>
        r1 == [r EXCEPT !.perr = err, !.pallow = ~err /\ policyResult.Allow]
    IN  IF ~err /\ ~policyResult.Allow
        THEN [r1 EXCEPT !.pc = "record_event",
                !.response = <<[Code |-> "Access-Reject", ReplyMessage |-> reason]>>,
                !.pending = <<[EventType |-> "auth_failure", UserDID |-> result.DID,
                               Username |-> r.username, Decision |-> "DENY",
                               Reason |-> reason]>>]
        ELSE IF result.DID.len < DIDLogPrefixLen
        THEN [r1 EXCEPT !.pc = "panicked"]
        ELSE [r1 EXCEPT !.pc = "record_event",
                !.response = <<[Code |-> "Access-Accept",
                                ReplyMessage |-> <<"Welcome, ", r.username>>]>>,
                !.pending = <<[EventType |-> "auth_success", UserDID |-> result.DID,
                               Username |-> r.username, Decision |-> "ALLOW",
                               Reason |-> <<"authenticated">>]>>]

\* HandleAuth from Evaluate's return to the accept: lines 78 to 102.  The log
\* line of the accept path slices result.DID[:20], which panics on a shorter DID.
AfterEvaluate(r, policyResult, err) ==
    LET result == r.vres[1]
        reason == IF Len(policyResult.DenyReasons) > 0
                  THEN <<policyResult.DenyReasons[1]>> ELSE <<"policy_denied">>
        r1 == [r EXCEPT !.perr = err, !.pallow = ~err /\ policyResult.Allow]
    IN  IF err
        THEN Rejected(r1, <<"policy evaluation error">>, "auth_error", result.DID,
                      <<"policy_error">>)
        ELSE IF ~policyResult.Allow
        THEN Rejected(r1, reason, "auth_failure", result.DID, reason)
        ELSE IF result.DID.len < DIDLogPrefixLen
        THEN [r1 EXCEPT !.pc = "panicked"]
        ELSE [r1 EXCEPT !.pc = "record_event",
                !.response = <<[Code |-> "Access-Accept",
                                ReplyMessage |-> <<"Welcome, ", r.username>>]>>,
                !.pending = <<AccountingEvent("auth_success", result.DID, r.username,
                                              "ALLOW", <<"authenticated">>)>>]

\* Lines 66 to 77: the policy input and Engine.Evaluate on the policy in force.
HandleAuthPolicy(p) ==
    /\ Running
    /\ req[p].pc = "policy"
    /\ \E fail \in BOOLEAN :
        req' = [req EXCEPT ![p] =
            AfterEvaluate(req[p], Evaluate(prepared, AuthzInput(req[p].vres[1])), fail)]
    /\ UNCHANGED <<now, users, revocations, nonce_cache, nextTick, prepared, history, watch, last,
                   utcNow, collector, dir, merkleVars, app, evals, cfg, disk, lockVars, node_info>>

\* recordEvent turning a failed Record into a reject.
AfterRecordFailClosed(r, written) ==
    [r EXCEPT !.pc = "done", !.recordCalls = @ + 1,
              !.events = IF written THEN Append(@, r.pending[1]) ELSE @,
              !.response = IF written THEN @
                           ELSE <<[Code |-> "Access-Reject",
                                   ReplyMessage |-> <<"internal error">>]>>]

\* recordEvent's effect on the invocation: lines 154 to 170.
AfterRecord(r, written) ==
    [r EXCEPT !.pc = "done", !.recordCalls = @ + 1,
              !.events = IF written THEN Append(@, r.pending[1]) ELSE @]

\* recordEvent: Collector.Record appends the event, or fails and is only logged.
HandleAuthRecordEvent(p) ==
    /\ Running
    /\ req[p].pc = "record_event"
    /\ \E written \in BOOLEAN : req' = [req EXCEPT ![p] = AfterRecord(req[p], written)]
    /\ UNCHANGED <<now, users, revocations, nonce_cache, nextTick, prepared, history, watch, last,
                   utcNow, collector, dir, merkleVars, app, evals, cfg, disk, lockVars, node_info>>

\* The invocation has returned; the slot takes the next packet.
HandleAuthReturn(p) ==
    /\ Running
    /\ req[p].pc = "done"
    /\ req' = [q \in DOMAIN req |->
                IF q = p THEN Idle ELSE [req[q] EXCEPT !.overlap = @ \ {p}]]
    /\ UNCHANGED <<now, users, revocations, nonce_cache, nextTick, prepared, history, watch, last,
                   utcNow, collector, dir, merkleVars, app, evals, cfg, disk, lockVars, node_info>>

(***************************************************************************)
(* Administration, the clock and the background nonce pruner.              *)
(***************************************************************************)
\* Store.AddUser.
AddUser(username, did, publicKey, role) ==
    /\ Running
    /\ \E fail \in BOOLEAN :
        /\ users' = IF fail THEN users ELSE AddUserTable(username, did, publicKey, role)
        /\ last' = Kept([op |-> "AddUser", username |-> username, did |-> did,
                         err |-> fail \/ ~AddUserAdmits(username, did),
                         duplicate |-> username \in StoredUsernames \/ did \in StoredDIDs,
                         changed |-> users' # users])
    /\ UNCHANGED <<now, revocations, nonce_cache, nextTick, prepared, req, history, watch,
                   utcNow, collector, dir, merkleVars, app, evals, cfg, disk, lockVars, node_info>>

\* runUsersAdd ("users add <username>"): refuses a username that has a row,
\* generates a keypair and stores the user under the DID of its public key.
runUsersAdd(username, pub) ==
    /\ Running
    /\ \E lookupFails, addFails \in BOOLEAN :
        LET existing == GetUserByUsername(username)
            userDID == EncodeDIDKey(pub)
            stored == ~lookupFails /\ existing = << >> /\ ~addFails
        IN  /\ users' = IF stored THEN AddUserTable(username, userDID, pub, "basic")
                         ELSE users
            /\ last' = Kept([op |-> "runUsersAdd", username |-> username, pub |-> pub,
                             fault |-> lookupFails \/ (existing = << >> /\ addFails),
                             revoked |-> /\ existing # << >>
                                         /\ existing[1].revoked_at # << >>,
                             err |-> ~stored \/ ~AddUserAdmits(username, userDID)])
    /\ UNCHANGED <<now, revocations, nonce_cache, nextTick, prepared, req, history, watch,
                   utcNow, collector, dir, merkleVars, app, evals, cfg, disk, lockVars, node_info>>

\* Store.RevokeUser: the SELECT finds no row, or the transaction commits, or it
\* fails before the commit and is rolled back.
RevokeUser(username, reason) ==
    /\ Running
    /\ Len(revocations) < MaxRevocations
    /\ \E fail \in BOOLEAN :
        /\ IF fail \/ RevokeUserNoRows(username)
           THEN UNCHANGED <<users, revocations>>
           ELSE /\ users' = RevokeUserUsers(username)
                /\ revocations' = RevokeUserRevocations(username, reason)
        /\ last' = Kept([op |-> "RevokeUser", username |-> username,
                         err |-> fail \/ RevokeUserNoRows(username),
                         existed |-> username \in StoredUsernames,
                         revoked |-> /\ username \in StoredUsernames
                                     /\ users[username][1].revoked_at # << >>,
                         changed |-> users' # users \/ revocations' # revocations])
    /\ UNCHANGED <<now, nonce_cache, nextTick, prepared, req, history, watch,
                   utcNow, collector, dir, merkleVars, app, evals, cfg, disk, lockVars, node_info>>

\* Store.PruneExpiredNonces(maxAge) called on the store directly: the DELETE and
\* its RowsAffected, or an error and the count 0.
PruneExpiredNonces(maxAge) ==
    /\ Running
    /\ \E fail \in BOOLEAN :
        /\ nonce_cache' = IF fail THEN nonce_cache ELSE PruneExpiredNoncesTable(maxAge)
        /\ last' = Kept([op |-> "PruneExpiredNoncesCall", maxAge |-> maxAge, err |-> fail,
                         pruned |-> IF fail THEN 0 ELSE Cardinality(PrunedNonces(maxAge))])
    /\ history' = {[h EXCEPT !.pruned = TRUE] : h \in history}
    /\ req' = [q \in DOMAIN req |->
                [req[q] EXCEPT !.prior = {[x EXCEPT !.pruned = TRUE] : x \in @}]]
    /\ UNCHANGED <<now, users, revocations, nextTick, prepared, watch,
                   utcNow, collector, dir, merkleVars, app, evals, cfg, disk, lockVars, node_info>>

\* Store.SetNodeInfo(key, value): INSERT ... ON CONFLICT(key) DO UPDATE.
SetNodeInfo(key, value) ==
    /\ Running
    /\ \E fail \in BOOLEAN :
        /\ node_info' = IF fail THEN node_info ELSE [node_info EXCEPT ![key] = <<value>>]
        /\ last' = Kept([op |-> "SetNodeInfo", key |-> key, err |-> fail])
    /\ UNCHANGED <<now, users, revocations, nonce_cache, nextTick, prepared, req, history,
                   watch, utcNow, collector, dir, merkleVars, app, evals, cfg, disk, lockVars>>

\* Store.RecordNonce called on the store directly.
RecordNonce(nonce) ==
    /\ Running
    /\ \E fail \in BOOLEAN :
        /\ nonce_cache' = IF fail THEN nonce_cache ELSE RecordNonceTable(nonce)
        /\ last' = Kept([op |-> "RecordNonce", nonce |-> nonce, io |-> fail,
                         err |-> fail \/ RecordNonceConflict(nonce),
                         again |-> last.op = "RecordNonce" /\ last.nonce = nonce
                                   /\ ~last.err,
                         changed |-> nonce_cache' # nonce_cache])
    /\ UNCHANGED <<now, users, revocations, nextTick, prepared, req, history, watch,
                   utcNow, collector, dir, merkleVars, app, evals, cfg, disk, lockVars, node_info>>

\* What the policy directory can hold when load reads it: the .rego source of
\* one of the policies, no .rego file, a file os.ReadFile cannot read, or a
\* source that PrepareForEval does not compile.
PolicyDirs == Policies \cup {"no_files", "unreadable", "compile_error"}

\* load that stores what PrepareForEval returned before it looks at the error.
loadUnchecked(cur, policyDir) ==
    IF policyDir \in {"no_files", "unreadable"}
    THEN [prepared |-> cur, err |-> TRUE]
    ELSE IF policyDir = "compile_error" THEN [prepared |-> "unprepared", err |-> TRUE]
    ELSE [prepared |-> policyDir, err |-> FALSE]

\* Engine.load on an engine whose e.prepared is cur: e.prepared afterwards and
\* whether an error is returned.
load(cur, policyDir) ==
    IF policyDir \in Policies
    THEN [prepared |-> policyDir, err |-> FALSE]
    ELSE [prepared |-> cur, err |-> TRUE]

\* Engine.Reload with the policy directory holding `policy`.
Reload(policy) ==
    /\ Running
    /\ prepared' = load(prepared, policy).prepared
    /\ last' = Kept([op |-> "Reload", policyDir |-> policy,
                     err |-> load(prepared, policy).err, before |-> prepared,
                     inflight |-> {e \in DOMAIN evals : evals[e].pc # "idle"}])
    /\ UNCHANGED <<now, users, revocations, nonce_cache, nextTick, req, history, watch,
                   utcNow, collector, dir, merkleVars, app, evals, cfg, disk, lockVars, node_info>>

\* The wall clock advances; the ticker's tick is taken before it moves past it.
Tick ==
    /\ now < MaxTime
    /\ now < nextTick
    /\ now' = now + 1
    /\ UNCHANGED <<users, revocations, nonce_cache, nextTick, prepared, req, history, watch, last,
                   utcNow, collector, dir, merkleVars, app, evals, cfg, disk, lockVars, node_info>>

\* startNoncePruner: maxAge, with its fallback of five minutes.
PrunerMaxAge == IF MaxNonceAge = 0 THEN 1 ELSE MaxNonceAge

\* One tick of startNoncePruner's ticker, delivered at or after its time.
PrunerTick ==
    /\ Running
    /\ now >= nextTick
    /\ nextTick' = nextTick + PrunerMaxAge
    /\ \E fail \in BOOLEAN :
        nonce_cache' = IF fail THEN nonce_cache
                       ELSE PruneExpiredNoncesTable(PrunerMaxAge)
    /\ history' = {[h EXCEPT !.pruned = TRUE] : h \in history}
    /\ req' = [q \in DOMAIN req |->
                [req[q] EXCEPT !.prior = {[x EXCEPT !.pruned = TRUE] : x \in @}]]
    /\ last' = Kept([op |-> "PruneExpiredNonces"])
    /\ UNCHANGED <<now, users, revocations, prepared, watch,
                   utcNow, collector, dir, merkleVars, app, evals, cfg, disk, lockVars, node_info>>

(***************************************************************************)
(* Accounting log: the Collector's day-files and the log compressor.       *)
(* utcNow counts parts of a UTC day, DayLen to the day; a date is a day    *)
(* number.  A file name is its stem and whether it carries the .gz suffix  *)
(* after .jsonl; a file is its lines, and for a gzip whether its stream    *)
(* was closed (complete) and the file fsynced.                             *)
(***************************************************************************)
MaxUtc == 5
DayLen == 2
MaxLines == 2
MaxCompressAfterDays == 2
syncEvery == 100
DefaultCompressAfterDays == 7

\* time.Time.Format("2006-01-02") of an instant: its UTC date.
Date(t) == t \div DayLen

Dates == 0..Date(MaxUtc)

\* The file stem that a date formats to.
FormatDate(date) == <<"date", date>>

OtherStem == <<"notes">>

Stems == {FormatDate(date) : date \in Dates} \cup {OtherStem}

\* time.Parse("2006-01-02", stem): midnight UTC of the date, or an error.
ParseDate(stem) ==
    IF Len(stem) = 2 /\ stem[1] = "date"
    THEN [ok |-> TRUE, time |-> stem[2] * DayLen]
    ELSE [ok |-> FALSE, time |-> 0]

Names == [stem : Stems, gz : BOOLEAN]

\* filepath.Join(dir, stem + ".jsonl")
JsonlPath(stem) == [stem |-> stem, gz |-> FALSE]

\* srcPath + ".gz"
GzPath(src) == [src EXCEPT !.gz = TRUE]

\* strings.HasSuffix(name, ".jsonl")
HasSuffixJsonl(name) == ~name.gz

NoFile == [exists |-> FALSE, lines |-> << >>, complete |-> FALSE, synced |-> FALSE]

EmptyFile == [exists |-> TRUE, lines |-> << >>, complete |-> TRUE, synced |-> FALSE]

\* What is left of a gzip whose stream was cut short and that could not be removed.
PartialGz == [exists |-> TRUE, lines |-> << >>, complete |-> FALSE, synced |-> FALSE]

\* os.OpenFile(path, O_APPEND|O_WRONLY|O_CREATE): the directory afterwards.
OpenFile(d, path) == IF d[path].exists THEN d ELSE [d EXCEPT ![path] = EmptyFile]

Handle(path) == [path |-> path, closed |-> FALSE]

\* Collector.openFile at time t.
openFile(c, d, t, fails) ==
    LET path == JsonlPath(FormatDate(Date(t))) IN
    IF fails
    THEN [c |-> [c EXCEPT !.currentDate = Date(t)], d |-> d, err |-> TRUE]
    ELSE [c |-> [c EXCEPT !.currentDate = Date(t), !.file = Handle(path)],
          d |-> OpenFile(d, path), err |-> FALSE]

\* Collector.rotate(newDate): the old file is synced and closed, currentDate
\* is set, and then the new file is opened.
rotate(c, d, newDate, fails) ==
    LET path == JsonlPath(FormatDate(newDate))
        closed == [c EXCEPT !.file.closed = TRUE, !.currentDate = newDate]
    IN  IF fails
        THEN [c |-> closed, d |-> d, err |-> TRUE]
        ELSE [c |-> [closed EXCEPT !.file = Handle(path), !.eventCount = 0],
              d |-> OpenFile(d, path), err |-> FALSE]

\* Record that never rotates.
RotateNeededNever(c, today) == FALSE

\* Record's rotation test.
RotateNeeded(c, today) == today # c.currentDate

\* c.file.Write of one line: a closed file refuses it; a file that was
\* unlinked while open takes it and the directory does not show it.
Write(d, file, line) ==
    IF d[file.path].exists THEN [d EXCEPT ![file.path].lines = Append(@, line)] ELSE d

\* The events of the model, as json.Marshal writes them: never empty.
Events == {"e1", "e2"}

\* A Record whose periodic fsync never comes due.
SyncDueNever(c) == FALSE

\* Record's periodic fsync: c.eventCount%int64(c.syncEvery) == 0.
SyncDue(c) == c.eventCount % syncEvery = 0

\* File.Sync on the handle: every line of the file is on disk afterwards; a
\* closed handle, or a failing sync, leaves the disk as it was.  "failed" notes
\* that some sync of a handle that was open has failed.
Sync(k, d, file, fails) ==
    IF ~k.on \/ file.closed THEN k
    ELSE IF fails THEN [k EXCEPT !.failed = TRUE]
    ELSE [k EXCEPT !.durable[file.path] = Len(d[file.path].lines)]

\* Collector.Record at time t.
RecordAt(c, d, t, event, openFails, writeFails, syncFails) ==
    LET today == Date(t)
        r == IF RotateNeeded(c, today) THEN rotate(c, d, today, openFails)
             ELSE [c |-> c, d |-> d, err |-> FALSE]
    IN  IF r.err \/ r.c.file.closed \/ writeFails
        THEN [c |-> r.c, d |-> r.d, err |-> TRUE, wrote |-> FALSE]
        ELSE LET c2 == [r.c EXCEPT !.eventCount = @ + 1] IN
             [c |-> c2, d |-> Write(r.d, r.c.file, [day |-> today, event |-> event]),
              err |-> SyncDue(c2) /\ syncFails, wrote |-> TRUE]

\* The disk after Record at time t, r being what RecordAt returned: rotate
\* syncs the file it closes and ignores the error, and the periodic fsync
\* follows the write.
RecordSyncs(k, c, d, t, r, rotateSyncFails, syncFails) ==
    LET k1 == IF RotateNeeded(c, Date(t)) THEN Sync(k, d, c.file, rotateSyncFails) ELSE k
    IN  IF r.wrote /\ SyncDue(r.c) THEN Sync(k1, r.d, r.c.file, syncFails) ELSE k1

\* The day-file that Record would write at time t has room for a line.
HasRoom(t) == Len(dir[JsonlPath(FormatDate(Date(t)))].lines) < MaxLines

\* Collector.Record(event), whatever the length of the day-file.
RecordCall(event) ==
    /\ \E openFails, writeFails, syncFails, rotateSyncFails \in BOOLEAN :
        LET r == RecordAt(collector, dir, utcNow, event, openFails, writeFails, syncFails) IN
        /\ openFails => RotateNeeded(collector, Date(utcNow))
        /\ writeFails => ~r.wrote /\ ~openFails /\ ~r.c.file.closed
        /\ syncFails => r.err /\ r.wrote
        /\ rotateSyncFails
            => disk.on /\ RotateNeeded(collector, Date(utcNow)) /\ ~collector.file.closed
        /\ collector' = r.c
        /\ dir' = r.d
        /\ disk' = RecordSyncs(disk, collector, dir, utcNow, r, rotateSyncFails, syncFails)
        /\ last' = Kept([op |-> "Record", err |-> r.err,
                         io |-> openFails \/ writeFails \/ syncFails])
    /\ UNCHANGED <<now, users, revocations, nonce_cache, nextTick, prepared, req, history,
                   watch, utcNow, merkleVars, app, evals, cfg, lockVars, node_info>>

\* Collector.Record(event).
Record(event) == HasRoom(utcNow) /\ RecordCall(event)

\* Collector.Close.
Close ==
    /\ ~collector.file.closed
    /\ \E syncFails \in BOOLEAN :
        /\ syncFails => disk.on
        /\ disk' = Sync(disk, dir, collector.file, syncFails)
    /\ collector' = [collector EXCEPT !.file.closed = TRUE]
    /\ last' = Kept([op |-> "Close"])
    /\ UNCHANGED <<now, users, revocations, nonce_cache, nextTick, prepared, req, history,
                   watch, utcNow, dir, merkleVars, app, evals, cfg, lockVars, node_info>>

(***************************************************************************)
(* Collector.Record step by step, for callers that run concurrently: the   *)
(* marshalling before the lock, c.mu.Lock, the rotation and the write, and *)
(* c.eventCount++ as the load and the store it compiles to.                *)
(***************************************************************************)
MaxRecords == 3

Writers == {1, 2}

WriterIdle == [pc |-> "idle", event |-> "", turn |-> 0, count |-> 0]

\* A sync.Mutex that never blocks.
MuFreeAlways(w) == TRUE

\* c.mu.Lock() returns when no one holds the mutex.
MuFree(w) == mu.holder = 0

\* json.Marshal(event), before the lock is asked for.
RecordMarshal(w, event) ==
    /\ writers[w].pc = "idle"
    /\ Len(mu.order) + Cardinality({v \in Writers : writers[v].pc = "lock"}) < MaxRecords
    /\ writers' = [writers EXCEPT ![w] = [WriterIdle EXCEPT !.pc = "lock", !.event = event]]
    /\ UNCHANGED <<now, users, revocations, nonce_cache, nextTick, prepared, req, history,
                   watch, last, utcNow, collector, dir, merkleVars, app, evals, cfg, disk, mu, node_info>>

\* c.mu.Lock().
RecordLock(w) ==
    /\ writers[w].pc = "lock"
    /\ MuFree(w)
    /\ mu' = [mu EXCEPT !.holder = w,
                        !.order = Append(@, [event |-> writers[w].event, wrote |-> FALSE])]
    /\ writers' = [writers EXCEPT ![w].pc = "write", ![w].turn = Len(mu.order) + 1]
    /\ UNCHANGED <<now, users, revocations, nonce_cache, nextTick, prepared, req, history,
                   watch, last, utcNow, collector, dir, merkleVars, app, evals, cfg, disk, node_info>>

\* The rotation test, rotate, c.file.Write, and the load of c.eventCount; an
\* error returns through the deferred Unlock.
RecordWrite(w) ==
    /\ writers[w].pc = "write"
    /\ \E openFails, writeFails, rotateSyncFails \in BOOLEAN :
        LET today == Date(utcNow)
            rotates == RotateNeeded(collector, today)
            r == IF rotates THEN rotate(collector, dir, today, openFails)
                 ELSE [c |-> collector, d |-> dir, err |-> FALSE]
            failed == r.err \/ r.c.file.closed \/ writeFails
        IN  /\ openFails => rotates
            /\ writeFails => ~openFails /\ ~r.c.file.closed
            /\ rotateSyncFails => disk.on /\ rotates /\ ~collector.file.closed
            /\ collector' = r.c
            /\ disk' = IF rotates THEN Sync(disk, dir, collector.file, rotateSyncFails)
                        ELSE disk
            /\ dir' = IF failed THEN r.d
                       ELSE Write(r.d, r.c.file, [day |-> today, event |-> writers[w].event])
            /\ writers' = [writers EXCEPT ![w] =
                    IF failed THEN WriterIdle
                    ELSE [@ EXCEPT !.pc = "count", !.count = r.c.eventCount]]
            /\ mu' = [mu EXCEPT
                    !.holder = IF failed THEN 0 ELSE @,
                    !.order[writers[w].turn].wrote = ~failed,
                    !.base = IF rotates /\ ~r.err THEN Len(r.d[r.c.file.path].lines) ELSE @]
    /\ UNCHANGED <<now, users, revocations, nonce_cache, nextTick, prepared, req, history,
                   watch, last, utcNow, merkleVars, app, evals, cfg, node_info>>

\* The store of c.eventCount++, the periodic fsync, and the deferred Unlock.
RecordCount(w) ==
    /\ writers[w].pc = "count"
    /\ \E syncFails \in BOOLEAN :
        LET c2 == [collector EXCEPT !.eventCount = writers[w].count + 1] IN
        /\ syncFails => disk.on /\ SyncDue(c2)
        /\ collector' = c2
        /\ disk' = IF SyncDue(c2) THEN Sync(disk, dir, c2.file, syncFails) ELSE disk
    /\ writers' = [writers EXCEPT ![w] = WriterIdle]
    /\ mu' = [mu EXCEPT !.holder = 0]
    /\ UNCHANGED <<now, users, revocations, nonce_cache, nextTick, prepared, req, history,
                   watch, last, utcNow, dir, merkleVars, app, evals, cfg, node_info>>

\* No caller is inside Record.
InitLock ==
    /\ writers = [w \in Writers |-> WriterIdle]
    /\ mu = [holder |-> 0, order |-> << >>, base |-> 0]

\* NewCollector(dir) after the Collector before it was closed.
NewCollector ==
    /\ collector.file.closed
    /\ \E fails \in BOOLEAN :
        LET r == openFile([collector EXCEPT !.eventCount = 0], dir, utcNow, fails) IN
        /\ collector' = IF r.err THEN collector ELSE r.c
        /\ dir' = r.d
    /\ last' = Kept([op |-> "NewCollector"])
    /\ UNCHANGED <<now, users, revocations, nonce_cache, nextTick, prepared, req, history,
                   watch, utcNow, merkleVars, app, evals, cfg, disk, lockVars, node_info>>

\* The accounting log's clock advances.
UtcTick ==
    /\ utcNow < MaxUtc
    /\ utcNow' = utcNow + 1
    /\ last' = Kept([op |-> "none"])
    /\ UNCHANGED <<now, users, revocations, nonce_cache, nextTick, prepared, req, history,
                   watch, collector, dir, merkleVars, app, evals, cfg, disk, lockVars, node_info>>

\* startLogCompressor: maxAge, with its fallback of seven days.
startLogCompressorMaxAge(days) ==
    IF days * DayLen = 0 THEN DefaultCompressAfterDays * DayLen ELSE days * DayLen

\* compressFile that reports a cut-short copy as success.
compressFileCopyErrorLost(d, src, dst, kind, rmFails) ==
    IF kind \in {"open", "create"}
    THEN [d |-> d, err |-> TRUE]
    ELSE IF kind \in {"copy", "gzclose"}
    THEN [d |-> [d EXCEPT ![dst] = IF rmFails THEN PartialGz ELSE NoFile],
          err |-> kind # "copy"]
    ELSE [d |-> [d EXCEPT ![dst] = [exists |-> TRUE, lines |-> d[src].lines,
                                    complete |-> TRUE, synced |-> kind # "sync"]],
          err |-> kind = "sync"]

\* compressFile(src, dst): os.Open, os.Create, io.Copy through the gzip
\* writer, gz.Close, dstFile.Sync.
compressFile(d, src, dst, kind, rmFails) ==
    IF kind \in {"open", "create"}
    THEN [d |-> d, err |-> TRUE]
    ELSE IF kind \in {"copy", "gzclose"}
    THEN [d |-> [d EXCEPT ![dst] = IF rmFails THEN PartialGz ELSE NoFile],
          err |-> TRUE]
    ELSE [d |-> [d EXCEPT ![dst] = [exists |-> TRUE, lines |-> d[src].lines,
                                    complete |-> TRUE, synced |-> kind # "sync"]],
          err |-> kind = "sync"]

\* fileDate.After(cutoff)
After(fileDate, cutoff) == fileDate > cutoff

\* CompressOldLogs that never looks for the .gz.
AlreadyCompressedNever(d, dst) == FALSE

\* os.Stat(dstPath) succeeds.
AlreadyCompressed(d, dst) == d[dst].exists

\* CompressOldLogs' tests on one entry: the loop passes over it.
Skipped(d, name, cutoff) ==
    \/ ~HasSuffixJsonl(name)
    \/ ~ParseDate(name.stem).ok
    \/ After(ParseDate(name.stem).time, cutoff)
    \/ AlreadyCompressed(d, GzPath(name))

\* The I/O failures of one run: none, ReadDir's, or one inside the handling
\* of the file `at`; rmFails is os.Remove(dst) failing in compressFile's cleanup.
NoFault == [kind |-> "none", at |-> JsonlPath(OtherStem), rmFails |-> FALSE]

Faults(d, cutoff) ==
    LET handled == {name \in Names : d[name].exists /\ ~Skipped(d, name, cutoff)} IN
    {NoFault, [NoFault EXCEPT !.kind = "readdir"]}
    \cup [kind : {"open", "create", "sync", "remove"}, at : handled, rmFails : {FALSE}]
    \cup [kind : {"copy", "gzclose"}, at : handled, rmFails : BOOLEAN]

\* os.ReadDir: the names of the directory, sorted by file name.
NameOrder ==
    [i \in 1..(2 * Cardinality(Stems)) |->
        LET k == (i - 1) \div 2
            stem == IF k \in Dates THEN FormatDate(k) ELSE OtherStem
        IN  [stem |-> stem, gz |-> (i % 2 = 0)]]

ReadDir(d) == SelectSeq(NameOrder, LAMBDA name : d[name].exists)

\* CompressOldLogs' loop over the entries.
RECURSIVE CompressEntries(_, _, _, _, _)
CompressEntries(entries, d, compressed, cutoff, fault) ==
    IF entries = << >>
    THEN [d |-> d, compressed |-> compressed, err |-> FALSE]
    ELSE LET name == Head(entries)
             dst == GzPath(name)
         IN  IF Skipped(d, name, cutoff)
             THEN CompressEntries(Tail(entries), d, compressed, cutoff, fault)
             ELSE LET kind == IF fault.at = name THEN fault.kind ELSE "none"
                      r == compressFile(d, name, dst, kind, fault.rmFails)
                  IN  IF r.err \/ kind = "remove"
                      THEN [d |-> r.d, compressed |-> compressed, err |-> TRUE]
                      ELSE CompressEntries(Tail(entries), [r.d EXCEPT ![name] = NoFile],
                                           compressed + 1, cutoff, fault)

\* CompressOldLogs(dir, maxAge) at time t.
CompressOldLogsAt(d, t, maxAge, fault) ==
    IF fault.kind = "readdir"
    THEN [d |-> d, compressed |-> 0, err |-> TRUE]
    ELSE CompressEntries(ReadDir(d), d, 0, t - maxAge, fault)

\* One tick of startLogCompressor's ticker with accounting.compress_after_days = days.
CompressOldLogs(days) ==
    /\ \E fault \in Faults(dir, utcNow - startLogCompressorMaxAge(days)) :
        LET maxAge == startLogCompressorMaxAge(days)
            run == CompressOldLogsAt(dir, utcNow, maxAge, fault)
        IN  /\ dir' = run.d
            /\ last' = Kept([op |-> "CompressOldLogs", err |-> run.err, maxAge |-> maxAge,
                             compressed |-> run.compressed,
                             again |-> /\ last.op = "CompressOldLogs"
                                       /\ ~last.err
                                       /\ last.maxAge = maxAge])
    /\ UNCHANGED <<now, users, revocations, nonce_cache, nextTick, prepared, req, history,
                   watch, utcNow, collector, merkleVars, app, evals, cfg, disk, lockVars, node_info>>

(***************************************************************************)
(* Merkle tree and batcher.  SHA3-256 is taken as collision-free: a hash   *)
(* is the tagged tuple of what was hashed, the tag standing for the prefix *)
(* byte.  Indices are the code's, counted from 0.                          *)
(***************************************************************************)
MaxLeaves == 5

LeafData == {"a", "b"}

\* hashLeaf: SHA3-256(0x00 || data)
hashLeaf(data) == <<"leaf", data>>

\* hashNode: SHA3-256(0x01 || left || right)
hashNode(left, right) == <<"node", left, right>>

\* The loop that builds the next level: pairs are hashed, an odd node is promoted.
NextLevel(currentLevel) ==
    [k \in 1..((Len(currentLevel) + 1) \div 2) |->
        IF 2 * k <= Len(currentLevel)
        THEN hashNode(currentLevel[2 * k - 1], currentLevel[2 * k])
        ELSE currentLevel[2 * k - 1]]

HashedLeaves(leaves) == [k \in 1..Len(leaves) |-> hashLeaf(leaves[k])]

\* NewTree's loop from one level up to the root.
RECURSIVE BuildLevels(_, _, _)
BuildLevels(currentLevel, allNodes, height) ==
    IF Len(currentLevel) > 1
    THEN BuildLevels(NextLevel(currentLevel), allNodes \o NextLevel(currentLevel),
                     height + 1)
    ELSE [root |-> currentLevel[1], Nodes |-> allNodes, height |-> height]

NoTree == [err |-> TRUE, Leaves |-> << >>, Nodes |-> << >>, root |-> << >>, height |-> 0]

\* NewTree that reports the number of levels as the height.
NewTreeHeightCountsLevels(leaves) ==
    IF Len(leaves) = 0
    THEN NoTree
    ELSE LET b == BuildLevels(HashedLeaves(leaves), HashedLeaves(leaves), 0) IN
         [err |-> FALSE, Leaves |-> leaves, Nodes |-> b.Nodes, root |-> b.root,
          height |-> b.height + 1]

\* NewTree(leaves)
NewTree(leaves) ==
    IF Len(leaves) = 0
    THEN NoTree
    ELSE LET b == BuildLevels(HashedLeaves(leaves), HashedLeaves(leaves), 0) IN
         [err |-> FALSE, Leaves |-> leaves, Nodes |-> b.Nodes, root |-> b.root,
          height |-> b.height]

\* Proof that takes every sibling to lie on the right.
SiblingAlwaysRight(currentLevel, idx) ==
    IF idx % 2 = 0
    THEN IF idx + 1 < Len(currentLevel)
         THEN <<[Hash |-> currentLevel[idx + 2], IsRight |-> TRUE]>>
         ELSE << >>
    ELSE <<[Hash |-> currentLevel[idx], IsRight |-> TRUE]>>

\* Proof's step at one level: the sibling of node idx, none for a promoted node.
Sibling(currentLevel, idx) ==
    IF idx % 2 = 0
    THEN IF idx + 1 < Len(currentLevel)
         THEN <<[Hash |-> currentLevel[idx + 2], IsRight |-> TRUE]>>
         ELSE << >>
    ELSE <<[Hash |-> currentLevel[idx], IsRight |-> FALSE]>>

\* Proof's loop from one level up to the root.
RECURSIVE ProofPath(_, _)
ProofPath(currentLevel, idx) ==
    IF Len(currentLevel) > 1
    THEN Sibling(currentLevel, idx) \o ProofPath(NextLevel(currentLevel), idx \div 2)
    ELSE << >>

\* Tree.Proof(index)
Proof(t, index) ==
    IF index < 0 \/ index >= Len(t.Leaves)
    THEN [err |-> TRUE, proof |-> << >>]
    ELSE [err |-> FALSE, proof |-> ProofPath(HashedLeaves(t.Leaves), index)]

\* VerifyProof's loop over the proof elements.
RECURSIVE FoldProof(_, _)
FoldProof(current, proof) ==
    IF proof = << >>
    THEN current
    ELSE FoldProof(IF Head(proof).IsRight
                   THEN hashNode(current, Head(proof).Hash)
                   ELSE hashNode(Head(proof).Hash, current),
                   Tail(proof))

\* VerifyProof(leafData, proof, root)
VerifyProof(leafData, proof, root) == FoldProof(hashLeaf(leafData), proof) = root

NoCheck == [index |-> 0, err |-> TRUE, proof |-> << >>, leaf |-> << >>, ok |-> FALSE]

RECURSIVE SeqsUpTo(_, _)
SeqsUpTo(S, n) ==
    IF n = 0 THEN {<< >>}
    ELSE LET shorter == SeqsUpTo(S, n - 1) IN
         shorter \cup {Append(s, x) : s \in shorter, x \in S}

\* A caller builds a tree from a list of leaves.
BuildTree(leaves) ==
    /\ tree' = IF NewTree(leaves).err THEN tree ELSE NewTree(leaves)
    /\ check' = NoCheck
    /\ UNCHANGED <<now, users, revocations, nonce_cache, nextTick, prepared, req, history,
                   watch, last, utcNow, collector, dir, batches, app, evals, cfg, disk, lockVars, node_info>>

\* A caller asks the tree for the proof of a leaf index.
GenerateProof(index) ==
    /\ ~tree.err
    /\ check' = [index |-> index, err |-> Proof(tree, index).err,
                 proof |-> Proof(tree, index).proof, leaf |-> << >>, ok |-> FALSE]
    /\ UNCHANGED <<now, users, revocations, nonce_cache, nextTick, prepared, req, history,
                   watch, last, utcNow, collector, dir, tree, batches, app, evals, cfg, disk, lockVars, node_info>>

\* A caller verifies the proof it holds for some leaf data against the root.
CheckProof(leafData) ==
    /\ ~check.err
    /\ check' = [check EXCEPT !.leaf = <<leafData>>,
                              !.ok = VerifyProof(leafData, check.proof, tree.root)]
    /\ UNCHANGED <<now, users, revocations, nonce_cache, nextTick, prepared, req, history,
                   watch, last, utcNow, collector, dir, tree, batches, app, evals, cfg, disk, lockVars, node_info>>

\* A line without bytes, as another writer may have left it in a day-file.
BlankLine(date) == [day |-> date, event |-> ""]

\* readLogLines that keeps the empty lines.
readLogLinesKeepBlank(file) == file.lines

\* readLogLines: the lines of the file in file order, the empty ones left out.
readLogLines(file) == SelectSeq(file.lines, LAMBDA line : line.event # "")

\* hex.EncodeToString
HexEncode(bytes) == <<"hex", bytes>>

\* The batch file's name: now.Format("2006-01-02T15") + ".batch.json".  The
\* model's clock does not tell the hours of one of its steps apart.
BatchFile(t) == <<t, "batch.json">>

BatchFiles == {BatchFile(t) : t \in 0..MaxUtc}

\* An os.WriteFile that appends to the file it finds.
WriteFileAppending(b, name, data) == [b EXCEPT ![name] = Append(@, data)]

\* os.WriteFile(name, data, perm): the file is created or truncated, and holds
\* data alone afterwards.
WriteFile(b, name, data) == [b EXCEPT ![name] = <<data>>]

\* Batcher.BuildBatch at time t; write is what os.WriteFile does: "ok", or
\* it fails and leaves the file "untouched" or "truncated".
BuildBatchAt(d, b, t, readFails, write) ==
    LET logFile == JsonlPath(FormatDate(Date(t)))
        leaves == readLogLines(d[logFile])
        made == NewTree(leaves)
        batch == [Timestamp |-> t, SourceFile |-> logFile,
                  RootHash |-> HexEncode(made.root), LeafCount |-> Len(made.Leaves),
                  TreeHeight |-> made.height]
    IN  IF ~d[logFile].exists THEN [b |-> b, err |-> FALSE]
        ELSE IF readFails THEN [b |-> b, err |-> TRUE]
        ELSE IF Len(leaves) = 0 THEN [b |-> b, err |-> FALSE]
        ELSE IF made.err THEN [b |-> b, err |-> TRUE]
        ELSE IF write = "ok" THEN [b |-> WriteFile(b, BatchFile(t), batch), err |-> FALSE]
        ELSE IF write = "truncated" THEN [b |-> [b EXCEPT ![BatchFile(t)] = << >>], err |-> TRUE]
        ELSE [b |-> b, err |-> TRUE]

\* Batcher.BuildBatch, from the batcher's ticker or from Shutdown.
BuildBatch ==
    /\ \E readFails \in BOOLEAN, write \in {"ok", "untouched", "truncated"} :
        LET r == BuildBatchAt(dir, batches, utcNow, readFails, write) IN
        /\ (readFails \/ write # "ok") => r.err
        /\ readFails => write = "untouched"
        /\ batches' = r.b
        /\ last' = Kept([op |-> "BuildBatch", err |-> r.err,
                         before |-> batches[BatchFile(utcNow)]])
    /\ UNCHANGED <<now, users, revocations, nonce_cache, nextTick, prepared, req, history,
                   watch, utcNow, collector, dir, tree, check, app, evals, cfg, disk, lockVars, node_info>>

\* No tree built yet and an empty Merkle directory.
InitMerkle ==
    /\ tree = NoTree
    /\ check = NoCheck
    /\ batches = [f \in BatchFiles |-> << >>]

(***************************************************************************)
(* Engine.Evaluate in steps, beside Reload: the copy of e.prepared taken   *)
(* under the read lock, then the evaluation of the copy, which reads the   *)
(* compiled policy once for allow and once for deny_reasons.               *)
(***************************************************************************)
AuthzInputs ==
    {[User |-> "alice", DID |-> did, Role |-> "basic", Authenticated |-> a,
      Resource |-> "network_access"] : did \in {EncodeDIDKey("k1"), EmptyDID}, a \in BOOLEAN}

EvalIdle ==
    [pc |-> "idle", input |-> << >>, prepared |-> << >>, begunWith |-> << >>,
     allow |-> FALSE, result |-> << >>]

\* Evaluate that evaluates e.prepared itself, outside the lock.
PreparedInShared(ev) == prepared

\* The compiled policy that Evaluate evaluates: its local copy.
PreparedIn(ev) == ev.prepared[1]

\* Evaluate, lines 99 to 101: the copy under RLock.
EvaluateBegin(e, input) ==
    /\ evals[e].pc = "idle"
    /\ evals' = [evals EXCEPT ![e] =
                    [EvalIdle EXCEPT !.pc = "allow", !.input = <<input>>,
                                     !.prepared = <<prepared>>, !.begunWith = <<prepared>>]]
    /\ UNCHANGED <<now, users, revocations, nonce_cache, nextTick, prepared, req, history,
                   watch, last, utcNow, collector, dir, merkleVars, app, cfg, disk, lockVars, node_info>>

\* prepared.Eval as far as the allow field.
EvaluateAllow(e) ==
    /\ evals[e].pc = "allow"
    /\ evals' = [evals EXCEPT ![e] =
                    [@ EXCEPT !.pc = "deny_reasons",
                              !.allow = Evaluate(PreparedIn(evals[e]), evals[e].input[1]).Allow]]
    /\ UNCHANGED <<now, users, revocations, nonce_cache, nextTick, prepared, req, history,
                   watch, last, utcNow, collector, dir, merkleVars, app, cfg, disk, lockVars, node_info>>

\* prepared.Eval to its end and the AuthzResult built from it.
EvaluateReturn(e) ==
    /\ evals[e].pc = "deny_reasons"
    /\ evals' = [evals EXCEPT ![e] =
                    [@ EXCEPT !.pc = "returned",
                              !.result =
                                <<[Allow |-> evals[e].allow,
                                   DenyReasons |->
                                     Evaluate(PreparedIn(evals[e]), evals[e].input[1]).DenyReasons]>>]]
    /\ UNCHANGED <<now, users, revocations, nonce_cache, nextTick, prepared, req, history,
                   watch, last, utcNow, collector, dir, merkleVars, app, cfg, disk, lockVars, node_info>>

\* The caller takes the result; the slot is free for the next call.
EvaluateDone(e) ==
    /\ evals[e].pc = "returned"
    /\ evals' = [evals EXCEPT ![e] = EvalIdle]
    /\ UNCHANGED <<now, users, revocations, nonce_cache, nextTick, prepared, req, history,
                   watch, last, utcNow, collector, dir, merkleVars, app, cfg, disk, lockVars, node_info>>

InitEngine == evals = [e \in Slots |-> EvalIdle]

\* Durability is not followed.
InitDisk == disk = [on |-> FALSE]

NodeInfoKeys == {"node_did", "node_name"}

\* The node_info table before install has written to it.
InitNodeInfo == node_info = [key \in NodeInfoKeys |-> << >>]

\* The configuration as shipped: auth.clock_skew_tolerance at its default.
InitConfig == cfg = [Auth |-> AuthConfig(DefaultClockSkewTolerance)]

(***************************************************************************)
(* App.Shutdown, one action per call it makes.                             *)
(***************************************************************************)
\* The handlers that PacketServer.Shutdown waits for.
InFlight == {p \in DOMAIN req : req[p].pc # "idle"}

\* Shutdown that builds the final batch before it closes the accounting file.
AfterRadiusShutdownBatchFirst(a, timedOut) ==
    [a EXCEPT !.pc = "final_batch", !.timedOut = timedOut,
              !.steps = Append(@, "radius_shutdown")]

\* Radius.Shutdown has returned: what Shutdown does next.
AfterRadiusShutdown(a, timedOut) ==
    [a EXCEPT !.pc = "close_accounting", !.timedOut = timedOut,
              !.steps = Append(@, "radius_shutdown")]

\* Shutdown up to the point where Server.Shutdown has closed the listeners.
ShutdownBegin ==
    /\ Running
    /\ app.pc = "running"
    /\ app' = [app EXCEPT !.pc = "radius_shutdown", !.steps = Append(@, "stop_accepting")]
    /\ UNCHANGED <<now, users, revocations, nonce_cache, nextTick, prepared, req, history,
                   watch, last, utcNow, collector, dir, merkleVars, evals, cfg, disk, lockVars, node_info>>

\* Server.Shutdown returns: the handlers have finished, or the deadline of
\* ten seconds has passed with some of them in flight.
ShutdownWaited ==
    /\ Running
    /\ app.pc = "radius_shutdown"
    /\ app' = AfterRadiusShutdown(app, InFlight # {})
    /\ UNCHANGED <<now, users, revocations, nonce_cache, nextTick, prepared, req, history,
                   watch, last, utcNow, collector, dir, merkleVars, evals, cfg, disk, lockVars, node_info>>

\* a.Accounting.Close()
ShutdownCloseAccounting ==
    /\ Running
    /\ app.pc = "close_accounting"
    /\ \E syncFails \in BOOLEAN :
        /\ syncFails => disk.on
        /\ disk' = Sync(disk, dir, collector.file, syncFails)
    /\ collector' = [collector EXCEPT !.file.closed = TRUE]
    /\ app' = [app EXCEPT !.pc = "final_batch", !.steps = Append(@, "close_accounting")]
    /\ UNCHANGED <<now, users, revocations, nonce_cache, nextTick, prepared, req, history,
                   watch, last, utcNow, dir, merkleVars, evals, cfg, lockVars, node_info>>

\* a.Batcher.BuildBatch()
ShutdownBuildBatch ==
    /\ Running
    /\ app.pc = "final_batch"
    /\ \E readFails \in BOOLEAN, write \in {"ok", "untouched", "truncated"} :
        LET r == BuildBatchAt(dir, batches, utcNow, readFails, write) IN
        /\ (readFails \/ write # "ok") => r.err
        /\ readFails => write = "untouched"
        /\ batches' = r.b
    /\ app' = [app EXCEPT !.pc = "close_store", !.steps = Append(@, "final_batch"),
                          !.closedAtBatch = collector.file.closed]
    /\ UNCHANGED <<now, users, revocations, nonce_cache, nextTick, prepared, req, history,
                   watch, last, utcNow, collector, dir, tree, check, evals, cfg, disk, lockVars, node_info>>

\* a.Store.Close()
ShutdownCloseStore ==
    /\ Running
    /\ app.pc = "close_store"
    /\ app' = [app EXCEPT !.pc = "stopped", !.steps = Append(@, "close_store")]
    /\ UNCHANGED <<now, users, revocations, nonce_cache, nextTick, prepared, req, history,
                   watch, last, utcNow, collector, dir, merkleVars, evals, cfg, disk, lockVars, node_info>>

(***************************************************************************)
(* The goroutines that App.Start starts on the shared context: each is a   *)
(* for/select loop over ctx.Done() and its ticker.  A ticker is taken to   *)
(* have a tick ready whenever the loop comes back to its select.  "err"   *)
(* is what the last tick's operation returned, and "afterErr" notes a tick *)
(* taken after one whose operation had failed.                             *)
(***************************************************************************)
Loops == {"batcher", "pruner", "compressor"}

LoopStarted == [pc |-> "select", err |-> FALSE, afterErr |-> FALSE]

\* ctx.Done() is closed: Shutdown has called a.cancelFunc.
Cancelled == app.pc # "running"

\* A loop that returns when its operation fails.
AfterTickReturnOnError(loop, err) ==
    [loop EXCEPT !.pc = IF err THEN "returned" ELSE @, !.err = err,
                 !.afterErr = @ \/ loop.err]

\* The loop after the case <-ticker.C: the error is logged and the loop goes
\* round to its select.
AfterTick(loop, err) ==
    [loop EXCEPT !.err = err, !.afterErr = @ \/ loop.err]

\* startNoncePruner, case <-ticker.C.  PruneExpiredNonces is given ctx: once
\* ctx is cancelled ExecContext returns its error.
startNoncePrunerTick ==
    /\ app.loops["pruner"].pc = "select"
    /\ \E fail \in BOOLEAN :
        /\ Cancelled => fail
        /\ nonce_cache' = IF fail THEN nonce_cache
                          ELSE PruneExpiredNoncesTable(PrunerMaxAge)
        /\ app' = [app EXCEPT !.loops["pruner"] = AfterTick(@, fail)]
    /\ history' = {[h EXCEPT !.pruned = TRUE] : h \in history}
    /\ req' = [q \in DOMAIN req |->
                [req[q] EXCEPT !.prior = {[x EXCEPT !.pruned = TRUE] : x \in @}]]
    /\ UNCHANGED <<now, users, revocations, nextTick, prepared, watch, last,
                   utcNow, collector, dir, merkleVars, evals, cfg, disk, lockVars, node_info>>

\* startLogCompressor, case <-ticker.C, with accounting.compress_after_days = days.
startLogCompressorTick(days) ==
    /\ app.loops["compressor"].pc = "select"
    /\ \E fault \in Faults(dir, utcNow - startLogCompressorMaxAge(days)) :
        LET run == CompressOldLogsAt(dir, utcNow, startLogCompressorMaxAge(days), fault) IN
        /\ dir' = run.d
        /\ app' = [app EXCEPT !.loops["compressor"] = AfterTick(@, run.err)]
    /\ UNCHANGED <<now, users, revocations, nonce_cache, nextTick, prepared, req, history,
                   watch, last, utcNow, collector, merkleVars, evals, cfg, disk, lockVars,
                   node_info>>

\* Batcher.Start, case <-ticker.C.
BatcherStartTick ==
    /\ app.loops["batcher"].pc = "select"
    /\ \E readFails \in BOOLEAN, write \in {"ok", "untouched", "truncated"} :
        LET r == BuildBatchAt(dir, batches, utcNow, readFails, write) IN
        /\ (readFails \/ write # "ok") => r.err
        /\ readFails => write = "untouched"
        /\ batches' = r.b
        /\ app' = [app EXCEPT !.loops["batcher"] = AfterTick(@, r.err)]
    /\ UNCHANGED <<now, users, revocations, nonce_cache, nextTick, prepared, req, history,
                   watch, last, utcNow, collector, dir, tree, check, evals, cfg, disk,
                   lockVars, node_info>>

\* case <-ctx.Done(): return, in any of the three loops.
LoopReturn(l) ==
    /\ app.loops[l].pc = "select"
    /\ Cancelled
    /\ app' = [app EXCEPT !.loops[l].pc = "returned"]
    /\ UNCHANGED <<now, users, revocations, nonce_cache, nextTick, prepared, req, history,
                   watch, last, utcNow, collector, dir, merkleVars, evals, cfg, disk,
                   lockVars, node_info>>

\* The node is up: Shutdown has not been called and the loops are running.
InitApp == app = [pc |-> "running", timedOut |-> FALSE, steps |-> << >>,
                  closedAtBatch |-> FALSE, loops |-> [l \in Loops |-> LoopStarted]]

\* The directory and the Collector after NewCollector at time 0: the day's
\* file is open and empty, beside a file that is not named for a date.
InitAccounting ==
    /\ utcNow = 0
    /\ dir = [name \in Names |->
                IF name = JsonlPath(FormatDate(0)) THEN EmptyFile
                ELSE IF name = JsonlPath(OtherStem)
                THEN [EmptyFile EXCEPT !.lines = <<[day |-> 0, event |-> "e1"]>>]
                ELSE NoFile]
    /\ collector = [currentDate |-> 0, file |-> Handle(JsonlPath(FormatDate(0))),
                    eventCount |-> 0]

(***************************************************************************)
(* Specifications.  Spec is one handler on a standing clock with the wide  *)
(* inputs; SpecClock lets the clock run and the pruner tick; SpecConc runs *)
(* two handlers side by side.                                              *)
(***************************************************************************)
\* The rows the administrators of the model add.
AliceRow == <<"alice", EncodeDIDKey("k1"), "k1", "basic">>

NewUserRows ==
    {AliceRow,
     <<"bob", EncodeDIDKey("k2"), "k2", "">>,
     <<"bob", ShortDID, "k2", "premium">>,
     <<"bob", ShortDID, "key1", "basic">>,
     <<"bob", EmptyDID, "k2", "basic">>,
     <<"bob", EncodeDIDKey("k1"), "k2", "basic">>}

\* The tokens the clients of the model present.
FreshTokens ==
    {CreateCredentialAtTime(u, k, TokenTime, n) : u \in Usernames, k \in Keys, n \in Nonces}

Tokens ==
    FreshTokens
    \cup {CreateCredentialAtTime("alice", "k1", ts, "n1") : ts \in {0, MaxTime}}
    \cup {Rebind(CreateCredentialAtTime("alice", "k1", TokenTime, "n1"), "bob")}
    \cup {GarbageToken, EmptyToken}

AliceTokens == {CreateCredentialAtTime("alice", "k1", TokenTime, n) : n \in Nonces}

InitStore ==
    /\ users = [u \in Usernames |-> << >>]
    /\ revocations = << >>
    /\ nonce_cache = [n \in {} |-> 0]

Init ==
    /\ now = TokenTime + CredentialTTL
    /\ InitStore
    /\ nextTick = now + PrunerMaxAge
    /\ prepared = "default"
    /\ req = [p \in {1} |-> Idle]
    /\ history = {}
    /\ watch = {}
    /\ last = [op |-> "off"]
    /\ InitAccounting
    /\ InitMerkle
    /\ InitApp
    /\ InitEngine
    /\ InitConfig
    /\ InitDisk
    /\ InitLock
    /\ InitNodeInfo

Next ==
    \/ \E p \in DOMAIN req, u \in Usernames \cup {""}, t \in Tokens : HandleAuthBegin(p, u, t)
    \/ \E p \in DOMAIN req : VerifyCheckNonce(p)
    \/ \E p \in DOMAIN req : VerifyIsRevoked(p)
    \/ \E p \in DOMAIN req : VerifyRecordNonce(p)
    \/ \E p \in DOMAIN req : HandleAuthPolicy(p)
    \/ \E p \in DOMAIN req : HandleAuthRecordEvent(p)
    \/ \E p \in DOMAIN req : HandleAuthReturn(p)
    \/ \E row \in NewUserRows : AddUser(row[1], row[2], row[3], row[4])
    \/ \E u \in Usernames : RevokeUser(u, "test")
    \/ \E pol \in Policies : Reload(pol)

Spec == Init /\ [][Next]_vars

InitClock ==
    /\ now = 0
    /\ InitStore
    /\ nextTick = PrunerMaxAge
    /\ prepared = "default"
    /\ req = [p \in {1} |-> Idle]
    /\ history = {}
    /\ watch = AliceTokens
    /\ last = [op |-> "off"]
    /\ InitAccounting
    /\ InitMerkle
    /\ InitApp
    /\ InitEngine
    /\ InitConfig
    /\ InitDisk
    /\ InitLock
    /\ InitNodeInfo

NextClock ==
    \/ \E p \in DOMAIN req, t \in AliceTokens : HandleAuthBegin(p, "alice", t)
    \/ \E p \in DOMAIN req : VerifyCheckNonce(p)
    \/ \E p \in DOMAIN req : VerifyIsRevoked(p)
    \/ \E p \in DOMAIN req : VerifyRecordNonce(p)
    \/ \E p \in DOMAIN req : HandleAuthPolicy(p)
    \/ \E p \in DOMAIN req : HandleAuthRecordEvent(p)
    \/ \E p \in DOMAIN req : HandleAuthReturn(p)
    \/ AddUser(AliceRow[1], AliceRow[2], AliceRow[3], AliceRow[4])
    \/ Tick
    \/ PrunerTick

SpecClock == InitClock /\ [][NextClock]_vars

\* The node of SpecClock, started with any of the configured skew tolerances.
InitSkew ==
    /\ now = 0
    /\ InitStore
    /\ nextTick = PrunerMaxAge
    /\ prepared = "default"
    /\ req = [p \in {1} |-> Idle]
    /\ history = {}
    /\ watch = {}
    /\ last = [op |-> "off"]
    /\ InitAccounting
    /\ InitMerkle
    /\ InitApp
    /\ InitEngine
    /\ \E skew \in ClockSkewTolerances : cfg = [Auth |-> AuthConfig(skew)]
    /\ InitDisk
    /\ InitLock
    /\ InitNodeInfo

SpecSkew == InitSkew /\ [][NextClock]_vars

InitConc ==
    /\ now = TokenTime
    /\ InitStore
    /\ nextTick = now + PrunerMaxAge
    /\ prepared = "default"
    /\ req = [p \in Slots |-> Idle]
    /\ history = {}
    /\ watch = {}
    /\ last = [op |-> "off"]
    /\ InitAccounting
    /\ InitMerkle
    /\ InitApp
    /\ InitEngine
    /\ InitConfig
    /\ InitDisk
    /\ InitLock
    /\ InitNodeInfo

NextConc ==
    \/ \E p \in DOMAIN req, t \in AliceTokens : HandleAuthBegin(p, "alice", t)
    \/ \E p \in DOMAIN req : VerifyCheckNonce(p)
    \/ \E p \in DOMAIN req : VerifyIsRevoked(p)
    \/ \E p \in DOMAIN req : VerifyRecordNonce(p)
    \/ \E p \in DOMAIN req : HandleAuthPolicy(p)
    \/ \E p \in DOMAIN req : HandleAuthRecordEvent(p)
    \/ \E p \in DOMAIN req : HandleAuthReturn(p)
    \/ AddUser(AliceRow[1], AliceRow[2], AliceRow[3], AliceRow[4])
    \/ RevokeUser("alice", "test")

SpecConc == InitConc /\ [][NextConc]_vars

\* The store on its own, as store_test.go drives it.
InitStoreOnly ==
    /\ now = 0
    /\ InitStore
    /\ nextTick = PrunerMaxAge
    /\ prepared = "default"
    /\ req = [p \in {1} |-> Idle]
    /\ history = {}
    /\ watch = {}
    /\ last = [op |-> "none"]
    /\ InitAccounting
    /\ InitMerkle
    /\ InitApp
    /\ InitEngine
    /\ InitConfig
    /\ InitDisk
    /\ InitLock
    /\ InitNodeInfo

NextStore ==
    \/ \E row \in NewUserRows : AddUser(row[1], row[2], row[3], row[4])
    \/ \E u \in Usernames : RevokeUser(u, "test")
    \/ \E n \in Nonces : RecordNonce(n)

SpecStore == InitStoreOnly /\ [][NextStore]_vars

\* Every writing operation of the store, on two users.
NextFrame ==
    \/ AddUser(AliceRow[1], AliceRow[2], AliceRow[3], AliceRow[4])
    \/ AddUser("bob", EncodeDIDKey("k2"), "k2", "")
    \/ \E u \in Usernames : RevokeUser(u, "test")
    \/ RecordNonce("n1")
    \/ PruneExpiredNonces(0)
    \/ SetNodeInfo("node_did", "did:key:z6MkTest")

SpecFrame == InitStoreOnly /\ [][NextFrame]_vars

\* An operator who adds, revokes and adds alice again, and alice's logins with
\* the key of either keypair.
InitReadd ==
    /\ now = TokenTime
    /\ InitStore
    /\ nextTick = now + PrunerMaxAge
    /\ prepared = "default"
    /\ req = [p \in {1} |-> Idle]
    /\ history = {}
    /\ watch = {}
    /\ last = [op |-> "none"]
    /\ InitAccounting
    /\ InitMerkle
    /\ InitApp
    /\ InitEngine
    /\ InitConfig
    /\ InitDisk
    /\ InitLock
    /\ InitNodeInfo

NextReadd ==
    \/ \E pub \in Keys : runUsersAdd("alice", pub)
    \/ RevokeUser("alice", "test")
    \/ \E p \in DOMAIN req, k \in Keys :
        HandleAuthBegin(p, "alice", CreateCredentialAtTime("alice", k, TokenTime, "n1"))
    \/ \E p \in DOMAIN req : VerifyCheckNonce(p)
    \/ \E p \in DOMAIN req : VerifyIsRevoked(p)
    \/ \E p \in DOMAIN req : VerifyRecordNonce(p)
    \/ \E p \in DOMAIN req : HandleAuthPolicy(p)
    \/ \E p \in DOMAIN req : HandleAuthRecordEvent(p)
    \/ \E p \in DOMAIN req : HandleAuthReturn(p)

SpecReadd == InitReadd /\ [][NextReadd]_vars

\* The nonce cache on its own, with the clock and the pruner.
NextNonce ==
    \/ \E n \in Nonces : RecordNonce(n)
    \/ Tick
    \/ PrunerTick

SpecNonce == InitStoreOnly /\ [][NextNonce]_vars

\* The ages a caller of PruneExpiredNonces passes.
MaxAges == 0..(PrunerMaxAge + 1)

\* The nonce cache with callers that prune it with any age, beside the clock
\* and the pruner.
NextPrune ==
    \/ \E n \in Nonces : RecordNonce(n)
    \/ \E maxAge \in MaxAges : PruneExpiredNonces(maxAge)
    \/ Tick
    \/ PrunerTick

SpecPrune == InitStoreOnly /\ [][NextPrune]_vars

\* The accounting log on its own: the Collector, the clock and the compressor.
InitAcct ==
    /\ now = 0
    /\ InitStore
    /\ nextTick = PrunerMaxAge
    /\ prepared = "default"
    /\ req = [p \in {1} |-> Idle]
    /\ history = {}
    /\ watch = {}
    /\ last = [op |-> "off"]
    /\ InitAccounting
    /\ InitMerkle
    /\ InitApp
    /\ InitEngine
    /\ InitConfig
    /\ InitDisk
    /\ InitLock
    /\ InitNodeInfo

NextAcct ==
    \/ Record("e1")
    \/ Close
    \/ NewCollector
    \/ UtcTick
    \/ \E days \in 0..MaxCompressAfterDays : CompressOldLogs(days)

SpecAcct == InitAcct /\ [][NextAcct]_vars

\* The Collector over the last day boundary of the model, MaxLines events short
\* of its first periodic fsync, and the disk followed: nothing has been synced
\* since the file was opened.
TotalLines == Len(dir[JsonlPath(FormatDate(Date(MaxUtc)))].lines)
              + Len(dir[JsonlPath(FormatDate(Date(MaxUtc) - 1))].lines)

InitSync ==
    /\ now = 0
    /\ InitStore
    /\ nextTick = PrunerMaxAge
    /\ prepared = "default"
    /\ req = [p \in {1} |-> Idle]
    /\ history = {}
    /\ watch = {}
    /\ last = [op |-> "off"]
    /\ utcNow = MaxUtc - DayLen
    /\ collector = [currentDate |-> Date(utcNow), file |-> Handle(JsonlPath(FormatDate(Date(utcNow)))),
                    eventCount |-> syncEvery - MaxLines]
    /\ dir = [name \in Names |->
                IF name = JsonlPath(FormatDate(Date(utcNow)))
                THEN [EmptyFile EXCEPT !.lines =
                        [i \in 1..(syncEvery - MaxLines) |-> [day |-> Date(utcNow), event |-> "e1"]]]
                ELSE NoFile]
    /\ InitMerkle
    /\ InitApp
    /\ InitEngine
    /\ InitConfig
    /\ disk = [on |-> TRUE, durable |-> [name \in Names |-> 0], failed |-> FALSE]
    /\ InitLock
    /\ InitNodeInfo

NextSync ==
    \/ TotalLines < syncEvery + MaxLines /\ RecordCall("e1")
    \/ Close
    \/ NewCollector
    \/ UtcTick

SpecSync == InitSync /\ [][NextSync]_vars

\* Two callers of Record over the last day boundary of the model, on a
\* directory that starts with the empty file of the day.
InitWriters ==
    /\ now = 0
    /\ InitStore
    /\ nextTick = PrunerMaxAge
    /\ prepared = "default"
    /\ req = [p \in {1} |-> Idle]
    /\ history = {}
    /\ watch = {}
    /\ last = [op |-> "off"]
    /\ utcNow = MaxUtc - DayLen
    /\ collector = [currentDate |-> Date(utcNow), file |-> Handle(JsonlPath(FormatDate(Date(utcNow)))),
                    eventCount |-> 0]
    /\ dir = [name \in Names |->
                IF name = JsonlPath(FormatDate(Date(utcNow))) THEN EmptyFile ELSE NoFile]
    /\ InitMerkle
    /\ InitApp
    /\ InitEngine
    /\ InitConfig
    /\ InitDisk
    /\ InitLock
    /\ InitNodeInfo

NextWriters ==
    \/ \E w \in Writers, event \in Events : RecordMarshal(w, event)
    \/ \E w \in Writers : RecordLock(w)
    \/ \E w \in Writers : RecordWrite(w)
    \/ \E w \in Writers : RecordCount(w)
    \/ UtcTick

SpecWriters == InitWriters /\ [][NextWriters]_vars

\* The accounting log with what each call returned, under a configured compress_after_days.
InitCompress ==
    /\ now = 0
    /\ InitStore
    /\ nextTick = PrunerMaxAge
    /\ prepared = "default"
    /\ req = [p \in {1} |-> Idle]
    /\ history = {}
    /\ watch = {}
    /\ last = [op |-> "none"]
    /\ InitAccounting
    /\ InitMerkle
    /\ InitApp
    /\ InitEngine
    /\ InitConfig
    /\ InitDisk
    /\ InitLock
    /\ InitNodeInfo

NextCompress ==
    \/ Record("e1")
    \/ Close
    \/ NewCollector
    \/ UtcTick
    \/ \E days \in 1..MaxCompressAfterDays : CompressOldLogs(days)

SpecCompress == InitCompress /\ [][NextCompress]_vars

\* accounting.compress_after_days of the node whose compressor is followed to
\* the end.
CompressAfterDays == 1

\* The accounting log with startLogCompressor's ticker, which ticks for as
\* long as the node runs.
NextCompressLive ==
    \/ Record("e1")
    \/ Close
    \/ NewCollector
    \/ UtcTick
    \/ CompressOldLogs(CompressAfterDays)

\* The background loops of a running node and Shutdown's cancellation of
\* their context.  A ticker goes on ticking and a select whose ctx.Done()
\* case stays ready comes to take it.
NextLoops ==
    \/ startNoncePrunerTick
    \/ startLogCompressorTick(CompressAfterDays)
    \/ BatcherStartTick
    \/ \E l \in Loops : LoopReturn(l)
    \/ ShutdownBegin

\* A node that has run for a while when its loops come to tick: a nonce older
\* than the pruner's maxAge is in the cache, a day-file older than the
\* compressor's threshold stands beside today's, and today's has an event.
InitLoops ==
    /\ now = PrunerMaxAge + 1
    /\ users = [u \in Usernames |-> << >>]
    /\ revocations = << >>
    /\ nonce_cache = [n \in {"n1"} |-> 0]
    /\ nextTick = now + PrunerMaxAge
    /\ prepared = "default"
    /\ req = [p \in {1} |-> Idle]
    /\ history = {}
    /\ watch = {}
    /\ last = [op |-> "off"]
    /\ utcNow = CompressAfterDays * DayLen
    /\ dir = [name \in Names |->
                IF name \in {JsonlPath(FormatDate(0)), JsonlPath(FormatDate(Date(utcNow)))}
                THEN [EmptyFile EXCEPT !.lines = <<[day |-> name.stem[2], event |-> "e1"]>>]
                ELSE NoFile]
    /\ collector = [currentDate |-> Date(utcNow),
                    file |-> Handle(JsonlPath(FormatDate(Date(utcNow)))), eventCount |-> 1]
    /\ InitMerkle
    /\ InitApp
    /\ InitEngine
    /\ InitConfig
    /\ InitDisk
    /\ InitLock
    /\ InitNodeInfo

SpecLoops ==
    /\ InitLoops
    /\ [][NextLoops]_vars
    /\ WF_vars(startNoncePrunerTick)
    /\ WF_vars(startLogCompressorTick(CompressAfterDays))
    /\ WF_vars(BatcherStartTick)
    /\ \A l \in Loops : WF_vars(LoopReturn(l))

SpecCompressLive ==
    InitCompress /\ [][NextCompressLive]_vars /\ WF_vars(CompressOldLogs(CompressAfterDays))

\* The Merkle tree on its own: lists of leaves, proofs and verifications.
NextTree ==
    \/ \E leaves \in SeqsUpTo(LeafData, MaxLeaves) : BuildTree(leaves)
    \/ \E index \in -1..MaxLeaves : GenerateProof(index)
    \/ \E leafData \in LeafData : CheckProof(leafData)

SpecTree == InitStoreOnly /\ [][NextTree]_vars

\* The batcher beside a Collector that writes, over the last BatchSpan steps
\* of the clock: the day-file starts empty or with an empty line in it.
BatchSpan == 2

InitBatch ==
    /\ now = 0
    /\ InitStore
    /\ nextTick = PrunerMaxAge
    /\ prepared = "default"
    /\ req = [p \in {1} |-> Idle]
    /\ history = {}
    /\ watch = {}
    /\ last = [op |-> "none"]
    /\ utcNow = MaxUtc - BatchSpan
    /\ collector = [currentDate |-> Date(utcNow), file |-> Handle(JsonlPath(FormatDate(Date(utcNow)))),
                    eventCount |-> 0]
    /\ \E lines \in {<< >>, <<BlankLine(Date(utcNow))>>} :
        dir = [name \in Names |->
                IF name = JsonlPath(FormatDate(Date(utcNow))) THEN [EmptyFile EXCEPT !.lines = lines]
                ELSE NoFile]
    /\ InitMerkle
    /\ InitApp
    /\ InitEngine
    /\ InitConfig
    /\ InitDisk
    /\ InitLock
    /\ InitNodeInfo

NextBatch ==
    \/ \E event \in Events : Record(event)
    \/ UtcTick
    \/ BuildBatch

SpecBatch == InitBatch /\ [][NextBatch]_vars

\* A node that serves alice, writes to its accounting log and is shut down.
InitShutdown ==
    /\ now = TokenTime
    /\ InitStore
    /\ nextTick = now + PrunerMaxAge
    /\ prepared = "default"
    /\ req = [p \in {1} |-> Idle]
    /\ history = {}
    /\ watch = {}
    /\ last = [op |-> "off"]
    /\ InitAccounting
    /\ InitMerkle
    /\ InitApp
    /\ InitEngine
    /\ InitConfig
    /\ InitDisk
    /\ InitLock
    /\ InitNodeInfo

NextShutdown ==
    \/ \E p \in DOMAIN req :
        HandleAuthBegin(p, "alice", CreateCredentialAtTime("alice", "k1", TokenTime, "n1"))
    \/ \E p \in DOMAIN req : VerifyCheckNonce(p)
    \/ \E p \in DOMAIN req : VerifyIsRevoked(p)
    \/ \E p \in DOMAIN req : VerifyRecordNonce(p)
    \/ \E p \in DOMAIN req : HandleAuthPolicy(p)
    \/ \E p \in DOMAIN req : HandleAuthRecordEvent(p)
    \/ \E p \in DOMAIN req : HandleAuthReturn(p)
    \/ AddUser(AliceRow[1], AliceRow[2], AliceRow[3], AliceRow[4])
    \/ Record("e1")
    \/ ShutdownBegin
    \/ ShutdownWaited
    \/ ShutdownCloseAccounting
    \/ ShutdownBuildBatch
    \/ ShutdownCloseStore

SpecShutdown == InitShutdown /\ [][NextShutdown]_vars

\* The policy engine on its own: callers of Evaluate beside Reload.
NextEngine ==
    \/ \E e \in DOMAIN evals, input \in AuthzInputs : EvaluateBegin(e, input)
    \/ \E e \in DOMAIN evals : EvaluateAllow(e)
    \/ \E e \in DOMAIN evals : EvaluateReturn(e)
    \/ \E e \in DOMAIN evals : EvaluateDone(e)
    \/ \E pol \in Policies : Reload(pol)

SpecEngine == InitStoreOnly /\ [][NextEngine]_vars

\* The engine with Reload reading every kind of policy directory.
NextReload ==
    \/ \E e \in DOMAIN evals, input \in AuthzInputs : EvaluateBegin(e, input)
    \/ \E e \in DOMAIN evals : EvaluateAllow(e)
    \/ \E e \in DOMAIN evals : EvaluateReturn(e)
    \/ \E e \in DOMAIN evals : EvaluateDone(e)
    \/ \E policyDir \in PolicyDirs : Reload(policyDir)

SpecReload == InitStoreOnly /\ [][NextReload]_vars

(***************************************************************************)
(* Properties.  What a Verify call and the handler have answered is read   *)
(* off the invocation's record.                                            *)
(***************************************************************************)
Returned(r) == r.vres # << >>

VerifyAllowed(r) == r.vres # << >> /\ ~r.verr /\ r.vres[1].Allowed

VerifyDenied(r, reason) ==
    r.vres # << >> /\ ~r.verr /\ ~r.vres[1].Allowed /\ r.vres[1].Reason[1] = reason

Answered(r, code) == r.response # << >> /\ r.response[1].Code = code

\* The token's age when Verify read the clock.
Age(r) == r.at - r.password.ts

Window == CredentialTTL + DefaultClockSkewTolerance

\* C1: of two Verify calls that overlap on the same token, with no store
\* operation failing in either, at most one returns allowed.
C1_AtMostOneAllowed ==
    \A p, q \in DOMAIN req :
        (/\ p # q
         /\ q \in req[p].overlap
         /\ req[p].password = req[q].password
         /\ req[p].fault = {}
         /\ req[q].fault = {})
        => ~(VerifyAllowed(req[p]) /\ VerifyAllowed(req[q]))

\* The earlier accepted call on the same username and token put its nonce in the
\* cache, and the pruner has not run since.
PriorRecordedUnpruned(r) == \E h \in r.prior : h.recorded /\ ~h.pruned

\* C2 (amended): after an accepted Verify whose nonce insert succeeded, a second
\* Verify on the same username and token, with no pruner run in between, no
\* store failure of its own and the token still within L + tau, is denied with
\* nonce_replay.
C2_ReplayDenied ==
    \A p \in DOMAIN req :
        (/\ Returned(req[p])
         /\ req[p].fault = {}
         /\ PriorRecordedUnpruned(req[p])
         /\ Age(req[p]) <= Window)
        => VerifyDenied(req[p], "nonce_replay")

C2_Witness ==
    \E p \in DOMAIN req :
        /\ req[p].fault = {}
        /\ PriorRecordedUnpruned(req[p])
        /\ Age(req[p]) <= Window
        /\ VerifyDenied(req[p], "nonce_replay")

\* C2 as stated: after an accepted Verify, a second Verify on the same username
\* and token, with no pruner run in between (and no store failure of its own),
\* is denied with nonce_replay.
C2_AsStated ==
    \A p \in DOMAIN req :
        (Returned(req[p]) /\ req[p].fault = {} /\ \E h \in req[p].prior : ~h.pruned)
        => VerifyDenied(req[p], "nonce_replay")

\* C3: a token whose nonce an accepted Verify recorded is not accepted again
\* (an accept implies the token is still within L + tau).
C3_NeverAcceptedAgain ==
    \A p \in DOMAIN req :
        (\E h \in req[p].prior : h.recorded) => ~VerifyAllowed(req[p])

\* The token of r was signed for a stored user other than the one r names, by
\* that user's key.
IssuedForAnother(r) ==
    /\ ParseCredential(r.password) # << >>
    /\ \E u1 \in StoredUsernames \ {r.username} :
        /\ r.password.uhash = UsernameHash(u1)
        /\ r.password.sig = Sign(ResolvePublicKey(users[u1][1]),
                                 RawMsg(r.password.ts, r.password.nonce, r.password.uhash))

\* C4 (amended): a token that k1 signed for the stored u1, submitted under
\* another username u2, is denied with username_mismatch when u2 is stored and
\* with user_not_found when u2 is not.
C4_SwapDenied ==
    \A p \in DOMAIN req :
        (Returned(req[p]) /\ req[p].fault = {} /\ IssuedForAnother(req[p]))
        => IF req[p].user # << >>
           THEN VerifyDenied(req[p], "username_mismatch")
           ELSE VerifyDenied(req[p], "user_not_found")

C4_Witness ==
    \E p \in DOMAIN req :
        /\ req[p].fault = {}
        /\ IssuedForAnother(req[p])
        /\ req[p].user # << >>
        /\ VerifyDenied(req[p], "username_mismatch")

\* C4 as stated: the swapped token is denied with username_mismatch whether or
\* not u2 is stored.
C4_AsStated ==
    \A p \in DOMAIN req :
        (Returned(req[p]) /\ req[p].fault = {} /\ IssuedForAnother(req[p]))
        => VerifyDenied(req[p], "username_mismatch")

\* C5: for a stored, non-revoked user's well-signed token, Verify denies with
\* credential_future exactly when age < -tau, with credential_expired exactly
\* when age > L + tau, and accepts the token it has not accepted before
\* whenever -tau <= age <= L + tau; it accepts at no other age.
C5_TemporalWindow ==
    \A p \in DOMAIN req :
        (Returned(req[p]) /\ req[p].fault = {} /\ req[p].user # << >>
         /\ ~req[p].revokedBefore)
        => /\ VerifyDenied(req[p], "credential_future")
                <=> Age(req[p]) < -DefaultClockSkewTolerance
           /\ VerifyDenied(req[p], "credential_expired") <=> Age(req[p]) > Window
           /\ VerifyAllowed(req[p])
                => Age(req[p]) >= -DefaultClockSkewTolerance /\ Age(req[p]) <= Window
           /\ (/\ Age(req[p]) >= -DefaultClockSkewTolerance
               /\ Age(req[p]) <= Window
               /\ req[p].prior = {})
                => VerifyAllowed(req[p])

C5_Witness ==
    \E p \in DOMAIN req :
        /\ req[p].fault = {}
        /\ req[p].prior = {}
        /\ Age(req[p]) = Window
        /\ VerifyAllowed(req[p])

\* RevokeUser has committed for the user that r names.
RevokeCommitted(r) ==
    /\ GetUserByUsername(r.username) # << >>
    /\ GetUserByUsername(r.username)[1].revoked_at # << >>

SeqRange(q) == {q[i] : i \in 1..Len(q)}

\* C6: when RevokeUser has committed before Verify's revocation check runs,
\* the check (not failing) returns denied with user_revoked, and a call denied
\* so has not run the nonce insert.
C6_RevokedBeforeCheck ==
    /\ [][\A p \in DOMAIN req :
            (/\ req[p].pc = "is_revoked"
             /\ req'[p].pc # "is_revoked"
             /\ req'[p].fault = {}
             /\ RevokeCommitted(req[p]))
            => VerifyDenied(req'[p], "user_revoked") /\ nonce_cache' = nonce_cache]_vars
    /\ [](\A p \in DOMAIN req :
            VerifyDenied(req[p], "user_revoked") => "record" \notin SeqRange(req[p].steps))

\* The revocation committed after the call had looked the user up.
C6_Witness ==
    \E p \in DOMAIN req :
        /\ ~req[p].revokedBefore
        /\ VerifyDenied(req[p], "user_revoked")
        /\ req[p].password.nonce \notin DOMAIN nonce_cache

C8_AcceptOnlyWhenAllowed ==
    \A p \in DOMAIN req :
        /\ Answered(req[p], "Access-Accept")
            => VerifyAllowed(req[p]) /\ ~req[p].perr /\ req[p].pallow
        /\ (req[p].fault \cap {"lookup", "replay", "revocation"} # {} \/ req[p].perr)
            => Answered(req[p], "Access-Reject")

C8_Witness ==
    \E p \in DOMAIN req :
        /\ req[p].fault = {}
        /\ VerifyAllowed(req[p])
        /\ req[p].perr
        /\ Answered(req[p], "Access-Reject")

\* C8 as stated: Access-Accept only after an allowed Verify and an allowing
\* policy, and no invocation in which a store operation or the policy engine
\* failed is answered with Access-Accept.
C8_AsStated ==
    \A p \in DOMAIN req :
        /\ Answered(req[p], "Access-Accept")
            => VerifyAllowed(req[p]) /\ ~req[p].perr /\ req[p].pallow
        /\ (req[p].fault # {} \/ req[p].perr) => ~Answered(req[p], "Access-Accept")

\* C9: every HandleAuth invocation that has ended has handed exactly one
\* accounting event to the collector.
C9_ExactlyOneEvent ==
    \A p \in DOMAIN req :
        req[p].pc \in {"done", "panicked"} => req[p].recordCalls = 1

VerifyOrder ==
    <<"parse", "lookup", "binding", "signature", "temporal", "replay", "revocation",
      "record">>

\* The reason of the first of the checks parse, lookup, binding, signature and
\* temporal that fails on these inputs, "ok" when none does.
FirstFailingLocal(username, token, user, t) ==
    IF token.form # "cred" THEN "invalid_credential"
    ELSE IF user = << >> THEN "user_not_found"
    ELSE IF token.uhash # UsernameHash(username) THEN "username_mismatch"
    ELSE IF token.sig # Sign(ResolvePublicKey(user[1]),
                             RawMsg(token.ts, token.nonce, token.uhash))
         THEN "invalid_signature"
    ELSE IF t - token.ts < -DefaultClockSkewTolerance THEN "credential_future"
    ELSE IF t - token.ts > Window THEN "credential_expired"
    ELSE "ok"

\* What a step of Verify came to: "ok" when the call goes on to its next check.
Outcome(r) ==
    IF r.vres = << >> THEN "ok"
    ELSE IF r.verr THEN "internal_error"
    ELSE IF r.vres[1].Allowed THEN "allowed"
    ELSE r.vres[1].Reason[1]

\* The outcome the fixed order prescribes for the step that r is about to take,
\* r1 being the record with the request's inputs.
Prescribed(r, r1) ==
    CASE r.pc = "idle" ->
            FirstFailingLocal(r1.username, r1.password, GetUserByUsername(r1.username), now)
      [] r.pc = "check_nonce" ->
            IF r.password.nonce \in DOMAIN nonce_cache THEN "nonce_replay" ELSE "ok"
      [] r.pc = "is_revoked" ->
            IF \E i \in 1..Len(revocations) : revocations[i].did = r.user[1].did
            THEN "user_revoked" ELSE "ok"
      [] OTHER -> "allowed"

\* C10: every step of a Verify call that returns runs the next check of the
\* order parse, lookup, binding, signature, temporal, replay, revocation; the
\* call is denied at the first check that fails, with that check's reason, and
\* is allowed only after all of them have run and passed.
C10_FixedOrder ==
    [][\A p \in DOMAIN req :
        (/\ req[p].pc \in {"idle"} \cup VerifyPcs
         /\ req'[p].pc # req[p].pc
         /\ req'[p].pc # "panicked"
         /\ req'[p].steps # << >>
         /\ req'[p].fault \subseteq {"record"})
        => /\ Outcome(req'[p]) = Prescribed(req[p], req'[p])
           /\ req'[p].steps = SubSeq(VerifyOrder, 1, Len(req'[p].steps))
           /\ Outcome(req'[p]) = "allowed" => req'[p].steps = VerifyOrder]_vars

\* Denied at the binding although the signature would have failed as well.
C10_Witness ==
    \E p \in DOMAIN req :
        /\ VerifyDenied(req[p], "username_mismatch")
        /\ req[p].user # << >>
        /\ FirstFailingLocal(req[p].password.uhash[2], req[p].password, req[p].user, now)
              = "invalid_signature"

HasRevocationRow(did) == \E i \in 1..Len(revocations) : revocations[i].did = did

\* C11: every stored user has revoked_at set exactly when a revocation row
\* exists for the user's identifier, also after a RevokeUser that failed.
C11_RevocationAtomic ==
    \A u \in StoredUsernames :
        users[u][1].revoked_at # << >> <=> HasRevocationRow(users[u][1].did)

\* A RevokeUser on a stored user failed beside a revocation that committed.
C11_Witness ==
    /\ last.op = "RevokeUser"
    /\ last.err
    /\ last.existed
    /\ users[last.username][1].revoked_at = << >>
    /\ \E u \in StoredUsernames : users[u][1].revoked_at # << >>

\* C12: RevokeUser on a user that does not exist or is already revoked returns
\* an error and leaves users and revocations unchanged.
C12_RevokeFails ==
    (last.op = "RevokeUser" /\ (~last.existed \/ last.revoked))
    => last.err /\ ~last.changed

\* C13: no two stored users share an identifier (or a username); an AddUser
\* whose username or identifier is already present returns an error and
\* changes nothing; a successful AddUser leaves the user stored under its
\* username and identifier with revoked_at absent.
C13_AddUserUnique ==
    /\ \A u1, u2 \in StoredUsernames :
        /\ users[u1][1].username = u1
        /\ users[u1][1].did = users[u2][1].did => u1 = u2
    /\ (last.op = "AddUser" /\ last.duplicate) => last.err /\ ~last.changed
    /\ (last.op = "AddUser" /\ ~last.err)
        => /\ last.username \in StoredUsernames
           /\ users[last.username][1].did = last.did
           /\ users[last.username][1].revoked_at = << >>

\* An AddUser was refused for its identifier alone.
C13_Witness ==
    /\ last.op = "AddUser"
    /\ last.err
    /\ last.username \notin StoredUsernames
    /\ last.did \in StoredDIDs

\* C14: a RecordNonce(n) that follows a successful RecordNonce(n) directly
\* leaves the nonce cache, seen_at included, as it was, and a RecordNonce that
\* meets no I/O failure returns no error.
C14_RecordNonceIdempotent ==
    /\ (last.op = "RecordNonce" /\ last.again /\ ~last.io) => ~last.changed
    /\ (last.op = "RecordNonce" /\ ~last.io) => ~last.err

\* The second call came after the clock had moved on.
C14_Witness ==
    /\ last.op = "RecordNonce"
    /\ last.again
    /\ ~last.io
    /\ last.nonce \in DOMAIN nonce_cache
    /\ nonce_cache[last.nonce] < now

\* The reason tokens of the verifier, the handler and the policies.
MachineReasons ==
    {"invalid_credential", "user_not_found", "username_mismatch", "invalid_signature",
     "credential_future", "credential_expired", "nonce_replay", "user_revoked",
     "internal_error", "missing_username", "missing_credential", "policy_denied",
     "policy_error", "no_username", "no_did", "not_authenticated"}

\* C15: the Reply-Message of every Access-Reject is one machine reason token
\* and nothing else.
C15_ReplyIsReasonToken ==
    \A p \in DOMAIN req :
        Answered(req[p], "Access-Reject")
        => /\ Len(req[p].response[1].ReplyMessage) = 1
           /\ req[p].response[1].ReplyMessage[1] \in MachineReasons

EmptyRequest(r) == r.username = "" \/ r.password.form = "empty"

\* C16: HandleAuth on an empty username, or on an empty token, rejects with
\* decision DENY and reason missing_username, or missing_credential, invokes
\* neither Verify nor the policy engine and leaves the store as it was.
C16_EmptyRequestRejected ==
    /\ [][\A p \in DOMAIN req :
            (req[p].pc = "idle" /\ req'[p].pc # "idle" /\ EmptyRequest(req'[p]))
            => /\ Answered(req'[p], "Access-Reject")
               /\ req'[p].pending[1].Decision = "DENY"
               /\ req'[p].pending[1].Reason =
                    <<IF req'[p].username = "" THEN "missing_username"
                      ELSE "missing_credential">>
               /\ UNCHANGED <<users, revocations, nonce_cache>>]_vars
    /\ [](\A p \in DOMAIN req :
            (req[p].pc # "idle" /\ EmptyRequest(req[p]))
            => /\ req[p].steps = << >>
               /\ req[p].vres = << >>
               /\ ~req[p].perr /\ ~req[p].pallow
               /\ req[p].pc \in {"record_event", "done"})

\* A username with an empty token, rejected and recorded.
C16_Witness ==
    \E p \in DOMAIN req :
        /\ req[p].pc = "done"
        /\ req[p].username # ""
        /\ req[p].password.form = "empty"
        /\ Len(req[p].events) = 1
        /\ req[p].events[1].Reason = <<"missing_credential">>

\* C17: an invocation in which Verify and the policy allowed and that went on
\* to record its event has answered Access-Accept, whether or not Record wrote
\* the event.
C17_RecordFailureKeepsAccept ==
    \A p \in DOMAIN req :
        (req[p].pc = "done" /\ VerifyAllowed(req[p]) /\ req[p].pallow)
        => Answered(req[p], "Access-Accept")

\* Accepted, and the event was not written.
C17_Witness ==
    \E p \in DOMAIN req :
        /\ req[p].pc = "done"
        /\ req[p].pallow
        /\ req[p].events = << >>
        /\ Answered(req[p], "Access-Accept")

\* The day-file of a date, and the date that Record reads from the clock.
DayFile(date) == JsonlPath(FormatDate(date))

Today == Date(utcNow)

\* C18: every line of a day-file was written on that file's UTC date; a
\* Record that succeeds appends its line to the file named for the date at
\* the moment of the write, which is the file the Collector then holds open
\* (opened by that Record if the date had changed); and no file of another
\* date ever grows.
C18_WrittenToTodaysFile ==
    /\ [](\A date \in Dates :
            \A i \in 1..Len(dir[DayFile(date)].lines) :
                dir[DayFile(date)].lines[i].day = date)
    /\ [][/\ (last'.op = "Record" /\ ~last'.err)
             => /\ \E event \in Events :
                    dir'[DayFile(Today)].lines
                      = Append(dir[DayFile(Today)].lines, [day |-> Today, event |-> event])
                /\ collector'.currentDate = Today
                /\ collector'.file = Handle(DayFile(Today))
                /\ collector.currentDate # Today => collector'.eventCount = 1
          /\ \A date \in Dates \ {Today} :
                Len(dir'[DayFile(date)].lines) <= Len(dir[DayFile(date)].lines)]_vars

\* Events of two days, each in its own file, the later written by the Record
\* that rotated.
C18_Witness ==
    /\ Today = 1
    /\ last.op = "Record" /\ ~last.err
    /\ collector.eventCount = 1
    /\ dir[DayFile(0)].lines # << >>
    /\ dir[DayFile(1)].lines # << >>

\* The events of a date that the directory holds: the original's, or those of
\* a complete gzip when the original is gone.
Held(d, date) ==
    IF d[DayFile(date)].exists THEN d[DayFile(date)].lines
    ELSE IF d[GzPath(DayFile(date))].exists /\ d[GzPath(DayFile(date))].complete
    THEN d[GzPath(DayFile(date))].lines
    ELSE << >>

IsPrefix(s, t) == Len(s) <= Len(t) /\ SubSeq(t, 1, Len(s)) = s

\* C19: no step loses an event of any date, whatever I/O failure a run of
\* CompressOldLogs meets: what the directory holds of a date only grows, and
\* an original goes only in a step that leaves its whole content in a gzip
\* that is complete and fsynced.
C19_OriginalOrCompleteGzip ==
    [][\A date \in Dates :
        /\ IsPrefix(Held(dir, date), Held(dir', date))
        /\ (dir[DayFile(date)].exists /\ ~dir'[DayFile(date)].exists)
           => dir'[GzPath(DayFile(date))]
                = [exists |-> TRUE, lines |-> dir[DayFile(date)].lines,
                   complete |-> TRUE, synced |-> TRUE]]_vars

\* One date compressed and its original removed, another whose gzip was cut
\* short by a failure and whose original is still there.
C19_Witness ==
    \E done, cut \in Dates :
        /\ ~dir[DayFile(done)].exists
        /\ dir[GzPath(DayFile(done))].complete
        /\ dir[GzPath(DayFile(done))].lines # << >>
        /\ dir[DayFile(cut)].exists
        /\ dir[DayFile(cut)].lines # << >>
        /\ dir[GzPath(DayFile(cut))].exists
        /\ ~dir[GzPath(DayFile(cut))].complete

\* The dates whose day-file is uncompressed and whose midnight lies maxAge or
\* more before t.
Due(d, t, maxAge) ==
    {date \in Dates :
        /\ d[DayFile(date)].exists
        /\ ~d[GzPath(DayFile(date))].exists
        /\ date * DayLen + maxAge <= t}

\* C20: a run of CompressOldLogs touches only the uncompressed day-files whose
\* date lies max_age or more back; a run without error compresses every one
\* of them and returns their number; the file not named for a date and every
\* .gz that was there are left as they were; and a run right after a run
\* without error changes nothing and returns 0.
C20_CompressExactlyDue ==
    [][last'.op = "CompressOldLogs"
       => LET due == Due(dir, utcNow, last'.maxAge) IN
          /\ \A date \in Dates \ due :
                /\ dir'[DayFile(date)] = dir[DayFile(date)]
                /\ dir'[GzPath(DayFile(date))] = dir[GzPath(DayFile(date))]
          /\ ~last'.err
             => /\ \A date \in due :
                    /\ ~dir'[DayFile(date)].exists
                    /\ dir'[GzPath(DayFile(date))].exists
                    /\ dir'[GzPath(DayFile(date))].complete
                    /\ dir'[GzPath(DayFile(date))].lines = dir[DayFile(date)].lines
                /\ last'.compressed = Cardinality(due)
          /\ dir'[JsonlPath(OtherStem)] = dir[JsonlPath(OtherStem)]
          /\ dir'[GzPath(JsonlPath(OtherStem))] = dir[GzPath(JsonlPath(OtherStem))]
          /\ \A name \in Names : (name.gz /\ dir[name].exists) => dir'[name] = dir[name]
          /\ last'.again => (dir' = dir /\ last'.compressed = 0)]_vars

\* A second run right after a run without error, beside a date whose .gz was
\* there and passed over.
C20_Witness ==
    /\ last.op = "CompressOldLogs"
    /\ last.again
    /\ ~last.err
    /\ \E date \in Dates :
        /\ ~dir[DayFile(date)].exists
        /\ dir[GzPath(DayFile(date))].lines # << >>
    /\ \E date \in Dates :
        /\ dir[DayFile(date)].exists
        /\ dir[GzPath(DayFile(date))].exists
        /\ date * DayLen + last.maxAge <= utcNow

\* C21: the root a tree holds is the root that building from its list of
\* leaves gives; Proof returns a proof for every index of the list; and
\* VerifyProof of that proof against the root is true for the leaf at the
\* index and false for any other leaf data.
C21_ProofVerifiesOnlyItsLeaf ==
    ~tree.err
    => /\ tree.root = NewTree(tree.Leaves).root
       /\ (check # NoCheck /\ check.index \in 0..(Len(tree.Leaves) - 1)) => ~check.err
       /\ (~check.err /\ check.leaf # << >>)
          => (check.ok <=> check.leaf[1] = tree.Leaves[check.index + 1])

\* The last of five leaves, promoted twice, verified with a proof of one element.
C21_Witness ==
    /\ Len(tree.Leaves) = 5
    /\ check.index = 4
    /\ ~check.err
    /\ Len(check.proof) = 1
    /\ check.leaf = <<tree.Leaves[5]>>
    /\ check.ok

\* The lines of a file that are not empty, in file order.
RECURSIVE NonEmptyLines(_)
NonEmptyLines(lines) ==
    IF lines = << >> THEN << >>
    ELSE IF Head(lines).event = "" THEN NonEmptyLines(Tail(lines))
    ELSE <<Head(lines)>> \o NonEmptyLines(Tail(lines))

\* C22: a BuildBatch leaves the Merkle directory as it was when today's file
\* is absent or has no non-empty line; otherwise a BuildBatch that returns no
\* error writes one record, whose leaf_count is the number of non-empty lines
\* of today's file and whose root_hash is the root of the tree of those
\* lines in file order.
C22_BatchOfTodaysLines ==
    [][last'.op = "BuildBatch"
       => LET file == dir[DayFile(Today)]
              leaves == NonEmptyLines(file.lines)
          IN  IF ~file.exists \/ leaves = << >>
              THEN batches' = batches
              ELSE ~last'.err
                   => /\ batches'[BatchFile(utcNow)] # << >>
                      /\ batches'[BatchFile(utcNow)][1].LeafCount = Len(leaves)
                      /\ batches'[BatchFile(utcNow)][1].RootHash
                           = HexEncode(NewTree(leaves).root)
                      /\ batches'[BatchFile(utcNow)][1].SourceFile = DayFile(Today)
                      /\ \A f \in BatchFiles \ {BatchFile(utcNow)} :
                            batches'[f] = batches[f]]_vars

\* A batch of the one event written after an empty line.
C22_Witness ==
    /\ last.op = "BuildBatch"
    /\ ~last.err
    /\ Len(dir[DayFile(Today)].lines) = 2
    /\ dir[DayFile(Today)].lines[1].event = ""
    /\ batches[BatchFile(utcNow)] # << >>
    /\ batches[BatchFile(utcNow)][1].LeafCount = 1

ShutdownOrder ==
    <<"stop_accepting", "radius_shutdown", "close_accounting", "final_batch", "close_store">>

\* C23: the steps Shutdown has finished are, in this order, stop accepting,
\* wait for the handlers in flight, close the accounting file, build the
\* final batch, close the store; once it has stopped accepting no request
\* begins; unless the deadline passed, no handler is in flight when the wait
\* is over; and the accounting file is closed when the final batch is built.
C23_ShutdownOrder ==
    /\ [](/\ IsPrefix(app.steps, ShutdownOrder)
          /\ (Len(app.steps) >= 2 /\ ~app.timedOut) => InFlight = {}
          /\ Len(app.steps) >= 3 => collector.file.closed
          /\ Len(app.steps) >= 4 => app.closedAtBatch)
    /\ [][app.pc # "running"
          => \A p \in DOMAIN req : req[p].pc = "idle" => req'[p].pc = "idle"]_vars

\* Shutdown ran to its end within the deadline and its final batch was written.
C23_Witness ==
    /\ app.pc = "stopped"
    /\ ~app.timedOut
    /\ app.steps = ShutdownOrder
    /\ batches[BatchFile(utcNow)] # << >>

\* C24: an Evaluate that has returned gives the whole result of one compiled
\* policy, the one that was in force when it began, whatever Reload has
\* swapped in while it ran: the old one if it began before the swap, the new
\* one if it began after the Reload.
C24_EvaluateOnOnePolicy ==
    \A e \in DOMAIN evals :
        evals[e].pc = "returned"
        => evals[e].result[1] = Evaluate(evals[e].begunWith[1], evals[e].input[1])

\* An Evaluate returned the old policy's denial after a Reload swapped in
\* another policy while it ran.
C24_Witness ==
    \E e \in DOMAIN evals :
        /\ evals[e].pc = "returned"
        /\ evals[e].begunWith[1] # prepared
        /\ evals[e].result[1].DenyReasons # << >>


\* The age at which the configured node is to stop accepting a token.
ConfiguredWindow == cfg.Auth.CredentialTTL + cfg.Auth.ClockSkewTolerance

\* C25: the verifier of the running node uses the configured
\* auth.clock_skew_tolerance as tau and auth.credential_ttl as L: with no store
\* failure, a known user and no revocation, Verify denies with credential_future
\* exactly when age < -tau, with credential_expired exactly when age > L + tau,
\* and accepts a token it has not accepted before at every age in between.
C25_ConfiguredSkewUsed ==
    \A p \in DOMAIN req :
        (Returned(req[p]) /\ req[p].fault = {} /\ req[p].user # << >>
         /\ ~req[p].revokedBefore)
        => /\ VerifyDenied(req[p], "credential_future")
                <=> Age(req[p]) < -cfg.Auth.ClockSkewTolerance
           /\ VerifyDenied(req[p], "credential_expired")
                <=> Age(req[p]) > ConfiguredWindow
           /\ (/\ Age(req[p]) >= -cfg.Auth.ClockSkewTolerance
               /\ Age(req[p]) <= ConfiguredWindow
               /\ req[p].prior = {})
                => VerifyAllowed(req[p])

\* C26: after a user has been revoked, adding a user with the same username
\* again (with a new keypair) succeeds when the store does not fail, and leaves
\* the username with an unrevoked row under the new key.
C26_ReaddRestoresAccess ==
    (last.op = "runUsersAdd" /\ last.revoked /\ ~last.fault)
    => /\ ~last.err
       /\ users[last.username] # << >>
       /\ users[last.username][1].public_key = last.pub
       /\ users[last.username][1].revoked_at = << >>

\* Slot p takes a step of Verify: the entry up to the temporal check, or one of
\* the store calls of steps 7 to 9.
VerifyStep(p) == req[p].pc \in {"idle"} \cup VerifyPcs /\ req'[p] # req[p]

\* The nonce of the token that r carries.
NonceOf(r) == ParseCredential(r.password)[1].NonceHex

\* C27 (amended): no step of Verify changes the users or the revocations, and
\* the nonce cache changes only in the step that returns allowed, so every
\* denied Verify leaves the three tables unchanged; a Verify that returns
\* allowed has recorded the token's nonce when its insert did not fail.
C27_NonceRecordedOnlyWhenAllowed ==
    [][\A p \in DOMAIN req :
        VerifyStep(p)
        => /\ users' = users
           /\ revocations' = revocations
           /\ nonce_cache' # nonce_cache => VerifyAllowed(req'[p])
           /\ (VerifyAllowed(req'[p]) /\ req'[p].fault = {})
                => NonceOf(req'[p]) \in DOMAIN nonce_cache']_vars

\* A Verify went past the nonce check, was denied for the revocation, and the
\* nonce of its token is not in the cache.
C27_Witness ==
    \E p \in DOMAIN req :
        /\ VerifyDenied(req[p], "user_revoked")
        /\ req[p].steps = <<"parse", "lookup", "binding", "signature", "temporal",
                            "replay", "revocation">>
        /\ NonceOf(req[p]) \notin DOMAIN nonce_cache

\* C27 as stated: the nonce is recorded if and only if Verify returns allowed.
C27_AsStated ==
    [][\A p \in DOMAIN req :
        VerifyStep(p)
        => /\ nonce_cache' # nonce_cache => VerifyAllowed(req'[p])
           /\ VerifyAllowed(req'[p]) => NonceOf(req'[p]) \in DOMAIN nonce_cache']_vars

\* The store calls of Verify that a failure of the store, or a cancelled
\* context, turns into an error return: steps 2, 7 and 8.
CheckFaults == {"lookup", "replay", "revocation"}

\* C28: when the store fails (or the context is cancelled) during the user
\* lookup, the nonce check or the revocation check, Verify returns a denied
\* result with reason internal_error together with the error, it has not reached
\* the nonce insert and the failing step leaves the nonce cache as it was, and
\* HandleAuth answers Access-Reject.
C28_StoreFailureRejects ==
    /\ [](\A p \in DOMAIN req :
            (req[p].fault \cap CheckFaults # {})
            => /\ Returned(req[p])
               /\ req[p].verr
               /\ ~req[p].vres[1].Allowed
               /\ req[p].vres[1].Reason[1] = "internal_error"
               /\ "record" \notin SeqRange(req[p].steps)
               /\ Answered(req[p], "Access-Reject"))
    /\ [][\A p \in DOMAIN req :
            (VerifyStep(p) /\ req'[p].fault \cap CheckFaults # {})
            => nonce_cache' = nonce_cache]_vars

\* The revocation check of a request failed: the request was rejected and the
\* nonce of its token is not in the cache.
C28_Witness ==
    \E p \in DOMAIN req :
        /\ req[p].fault = {"revocation"}
        /\ req[p].verr
        /\ Answered(req[p], "Access-Reject")
        /\ NonceOf(req[p]) \notin DOMAIN nonce_cache

\* The lines of a file that no sync has put on disk.
Unsynced(name) == Len(dir[name].lines) - disk.durable[name]

\* The file the collector has open.
IsOpenFile(name) == ~collector.file.closed /\ collector.file.path = name

\* Fewer than syncEvery events of the open file are unsynced and none of any
\* other file.
SyncedUpTo ==
    \A name \in Names :
        dir[name].exists
        => IF IsOpenFile(name) THEN Unsynced(name) < syncEvery ELSE Unsynced(name) = 0

\* The count of events written to the open file reaches a positive multiple of
\* syncEvery in this step.
CountReachesMultiple ==
    /\ collector'.eventCount # collector.eventCount
    /\ collector'.eventCount > 0
    /\ collector'.eventCount % syncEvery = 0

\* A step syncs only when the count reaches a positive multiple of syncEvery, on
\* rotation or on Close, and a count that reaches such a multiple, with no sync
\* failing, leaves every line of the open file on disk.
SyncsWhenDue ==
    /\ (disk'.durable # disk.durable)
        => (\/ CountReachesMultiple
            \/ collector'.currentDate # collector.currentDate
            \/ ~collector.file.closed /\ collector'.file.closed)
    /\ (CountReachesMultiple /\ disk'.failed = disk.failed)
        => (Unsynced(collector.file.path)' = 0)

WrittenEvents ==
    LET lines == dir[JsonlPath(FormatDate(Date(MaxUtc) - 1))].lines
                 \o dir[JsonlPath(FormatDate(Date(MaxUtc)))].lines
    IN  [i \in 1..Len(lines) |-> lines[i].event]

\* The events whose write succeeded, in the order in which their writers took
\* the lock.
LockOrderEvents ==
    LET done == SelectSeq(mu.order, LAMBDA o : o.wrote)
    IN  [i \in 1..Len(done) |-> done[i].event]

\* The lines written to the file of the collector's handle since it was opened.
WrittenSinceOpen == Len(dir[collector.file.path].lines) - mu.base

\* C30: under any interleaving of concurrent Record calls, every line of the
\* log is one whole event, the lines appear in the order in which their writers
\* took the lock, EventCount (read under the lock) equals the number of events
\* written to the collector's file since it was opened, and a rotation to a new
\* file starts the count at 0 again.
C30_WritersSerialized ==
    /\ [](/\ \A i \in 1..Len(WrittenEvents) : WrittenEvents[i] \in Events
          /\ WrittenEvents = LockOrderEvents
          /\ mu.holder = 0 => collector.eventCount = WrittenSinceOpen)
    /\ [][collector'.file.path # collector.file.path => collector'.eventCount = 0]_vars

\* One writer waits for the lock while the other, which holds it, has written
\* the second line of the file and has not counted it yet.
C30_Witness ==
    \E w \in Writers :
        /\ writers[w].pc = "lock"
        /\ mu.holder \notin {0, w}
        /\ writers[mu.holder].pc = "count"
        /\ collector.eventCount = 1
        /\ WrittenSinceOpen = 2

\* 2^h
RECURSIVE Pow2(_)
Pow2(h) == IF h = 0 THEN 1 ELSE 2 * Pow2(h - 1)

\* ceil(log2 n) for n >= 1: the least h with 2^h >= n.
CeilLog2(n) == CHOOSE h \in 0..n : Pow2(h) >= n /\ \A g \in 0..(h - 1) : Pow2(g) < n

\* C32: the tree of n >= 1 leaves has Height() = ceil(log2 n), which is 0 for
\* one leaf, and the inclusion proof of any of its leaves has at most Height()
\* elements.
C32_HeightIsCeilLog2 ==
    ~tree.err
    => /\ tree.height = CeilLog2(Len(tree.Leaves))
       /\ Len(tree.Leaves) = 1 => tree.height = 0
       /\ ~check.err => Len(check.proof) <= tree.height

\* A tree of five leaves, of height 3, and the proof of its last leaf, which is
\* promoted twice and has one element.
C32_Witness ==
    /\ ~tree.err
    /\ Len(tree.Leaves) = 5
    /\ tree.height = 3
    /\ ~check.err
    /\ check.index = 4
    /\ Len(check.proof) = 1

\* C33: the Merkle directory holds at most one batch record per hour; a
\* BuildBatch leaves the records of the other hours as they were, and one that
\* returns no error in an hour that already has a record leaves, in place of
\* that record, the one record of the day's log as it is now.
C33_OneRecordPerHour ==
    /\ [](\A f \in BatchFiles : Len(batches[f]) <= 1)
    /\ [][last'.op = "BuildBatch"
          => /\ \A f \in BatchFiles \ {BatchFile(utcNow)} : batches'[f] = batches[f]
             /\ (~last'.err /\ batches[BatchFile(utcNow)] # << >>)
                => LET leaves == NonEmptyLines(dir[DayFile(Today)].lines) IN
                   /\ Len(batches'[BatchFile(utcNow)]) = 1
                   /\ batches'[BatchFile(utcNow)][1].LeafCount = Len(leaves)
                   /\ batches'[BatchFile(utcNow)][1].RootHash
                        = HexEncode(NewTree(leaves).root)]_vars

\* A build replaced the record of one line, written earlier in the hour, with
\* the record of the two lines the log has now.
C33_Witness ==
    /\ last.op = "BuildBatch"
    /\ ~last.err
    /\ last.before # << >>
    /\ last.before[1].LeafCount = 1
    /\ Len(batches[BatchFile(utcNow)]) = 1
    /\ batches[BatchFile(utcNow)][1].LeafCount = 2

\* C34: a PruneExpiredNonces(maxAge) that returns no error leaves in the cache
\* exactly the nonces whose seen_at is not earlier than now - maxAge, each with
\* the seen_at it had, so CheckNonce still returns true for them, and returns
\* the number of nonces it took out; one that fails changes nothing.
C34_PruneExactlyExpired ==
    [][(last'.op = "PruneExpiredNoncesCall" /\ now' = now)
       => IF last'.err
          THEN nonce_cache' = nonce_cache /\ last'.pruned = 0
          ELSE /\ DOMAIN nonce_cache'
                    = {n \in DOMAIN nonce_cache : nonce_cache[n] >= now - last'.maxAge}
               /\ \A n \in DOMAIN nonce_cache' :
                    nonce_cache'[n] = nonce_cache[n] /\ CheckNonce(n)'
               /\ last'.pruned
                    = Cardinality(DOMAIN nonce_cache) - Cardinality(DOMAIN nonce_cache')]_vars

\* One of two nonces was pruned: the other, seen exactly maxAge ago, is still
\* in the cache.
C34_Witness ==
    /\ last.op = "PruneExpiredNoncesCall"
    /\ ~last.err
    /\ last.pruned = 1
    /\ \E n \in DOMAIN nonce_cache : nonce_cache[n] = now - last.maxAge

\* The columns of a users row that are set at creation.
Created(row) ==
    [id |-> row.id, username |-> row.username, did |-> row.did,
     public_key |-> row.public_key, role |-> row.role]

\* C35: no store operation changes the username, identifier, public_key or
\* role of a stored user or deletes the user; a RevokeUser that returns no error
\* changes only the revoked_at of the user it names and appends one revocation
\* row, for that user's identifier; every RevokeUser leaves the other users, the
\* nonce cache and node_info as they were, and one that fails leaves everything.
C35_UsersImmutable ==
    [][/\ \A u \in Usernames :
            users[u] # << >>
            => users'[u] # << >> /\ Created(users'[u][1]) = Created(users[u][1])
       /\ last'.op = "RevokeUser"
            => /\ \A u \in Usernames \ {last'.username} : users'[u] = users[u]
               /\ nonce_cache' = nonce_cache
               /\ node_info' = node_info
               /\ IF last'.err
                  THEN users' = users /\ revocations' = revocations
                  ELSE /\ users'[last'.username][1].revoked_at # << >>
                       /\ Len(revocations') = Len(revocations) + 1
                       /\ SubSeq(revocations', 1, Len(revocations)) = revocations
                       /\ revocations'[Len(revocations')].did
                            = users[last'.username][1].did]_vars

\* Alice was revoked while bob was stored and unrevoked, a nonce was in the
\* cache and node_info had a row.
C35_Witness ==
    /\ last.op = "RevokeUser"
    /\ ~last.err
    /\ last.username = "alice"
    /\ users["bob"] # << >>
    /\ users["bob"][1].revoked_at = << >>
    /\ DOMAIN nonce_cache # {}
    /\ node_info["node_did"] # << >>

\* C36: HandleAuth always answers: whatever user record is stored and whatever
\* token is presented, no invocation aborts, and one that has ended has sent
\* exactly one response, an Access-Accept or an Access-Reject.
C36_AlwaysAnswers ==
    \A p \in DOMAIN req :
        /\ req[p].pc # "panicked"
        /\ req[p].pc = "done"
            => /\ Len(req[p].response) = 1
               /\ req[p].response[1].Code \in {"Access-Accept", "Access-Reject"}

\* C37: a Reload that fails (no policy files, an unreadable file or a compile
\* error) leaves the compiled policy in effect: e.prepared is what it was
\* before the call, and every Evaluate that begins after it returns the result
\* the policy in force before the failed Reload gives on its input.
C37_FailedReloadKeepsPolicy ==
    (last.op = "Reload" /\ last.err)
    => /\ prepared = last.before
       /\ \A e \in DOMAIN evals \ last.inflight :
            evals[e].pc = "returned"
            => evals[e].result[1] = Evaluate(last.before, evals[e].input[1])

\* After a Reload to deny_all, a Reload failed on a compile error with no
\* Evaluate in flight, and an Evaluate begun since has returned.
C37_Witness ==
    /\ last.op = "Reload"
    /\ last.err
    /\ last.policyDir = "compile_error"
    /\ last.before = "deny_all"
    /\ last.inflight = {}
    /\ \E e \in DOMAIN evals : evals[e].pc = "returned"

\* A Record, none of whose own I/O fails, called when the Collector's handle
\* is not on the current day's file: it rotates and appends to that file.
RecordRetriesRotation ==
    (last'.op = "Record" /\ ~last'.io /\ collector.file.path # DayFile(Today))
    => /\ ~last'.err
       /\ collector'.file = Handle(DayFile(Today))
       /\ Len(dir'[DayFile(Today)].lines) = Len(dir[DayFile(Today)].lines) + 1

\* C38: a Record whose rotation fails to open the new day's file returns an
\* error; a later Record, once the directory is writable again, retries the
\* rotation and appends its event to the current day's file; and the
\* Collector's currentDate always names the file of its handle.
C38_RotationRetried ==
    /\ [](collector.file.path = DayFile(collector.currentDate))
    /\ [][/\ (last'.op = "Record" /\ RotateNeeded(collector, Today)
               /\ collector'.file.path # DayFile(Today))
              => last'.err
          /\ RecordRetriesRotation]_vars

\* The day-file of the date is there and is older than the compressor's threshold.
OldDayFile(date) ==
    /\ dir[DayFile(date)].exists
    /\ ~After(ParseDate(FormatDate(date)).time,
              utcNow - startLogCompressorMaxAge(CompressAfterDays))

\* The last run of the compressor returned an error.
RunFailed == last.op = "CompressOldLogs" /\ last.err

\* C39: once the compressor's runs stop failing, every uncompressed day-file
\* older than the threshold is eventually compressed and removed: the original
\* is gone and a complete .gz stands in its place, whatever earlier runs left
\* behind.
C39_EventuallyCompressed ==
    \A date \in Dates :
        (<>[]~RunFailed)
        => (OldDayFile(date)
            ~> (~dir[DayFile(date)].exists /\ dir[GzPath(DayFile(date))].complete))

\* C31: each background loop keeps ticking after a tick whose operation
\* returned an error, and each returns once the shared context is cancelled:
\* a loop returns only when the context is cancelled, a loop whose tick has
\* failed takes another tick unless the context is cancelled first, and after
\* the cancellation every loop comes to return.
C31_LoopsTickAndStop ==
    /\ [](\A l \in Loops : app.loops[l].pc = "returned" => Cancelled)
    /\ \A l \in Loops :
            (app.loops[l].pc = "select" /\ app.loops[l].err)
            ~> (Cancelled \/ app.loops[l].afterErr)
    /\ Cancelled ~> (\A l \in Loops : app.loops[l].pc = "returned")

\* Every loop has taken a tick after a tick whose operation failed, and has
\* returned after the cancellation.
C31_Witness ==
    \A l \in Loops : app.loops[l].afterErr /\ app.loops[l].pc = "returned"
====
